---- MODULE Spec2Model ----
(***************************************************************************)
(* playwright-results-parser: the normalizer (both revisions found in the  *)
(* sources), the shard aggregator and the filter utility, as operators     *)
(* over JSON-like values, and a state machine that applies them.           *)
(*                                                                         *)
(* Conventions for JSON values:                                            *)
(*   - a string that the code builds, rewrites or orders (project, file,   *)
(*     title, id) is a sequence of one-character strings; the absent       *)
(*     (undefined) string is the empty sequence, which is falsy like ""    *)
(*   - an enumerated string (a status) is a TLA+ string, "" when absent    *)
(*   - an absent number is NoNum; 0 and NoNum are both falsy               *)
(*   - an optional object is a sequence of length 0 (undefined) or 1       *)
(*   - an absent array is the empty sequence                               *)
(***************************************************************************)
EXTENDS Integers, Sequences, FiniteSets, TLC

VARIABLES
  op,       \* the last call: "init", "normalize", "filter", "aggregate", ...
  rev,      \* the normalizer revision in use: "B" (src/parser/normalizer.ts,
            \* retry-aware status) or "A" (src/unnamed/part_002, status mapping)
  report,   \* the report given to normalizeTestRun, when there is one
  runList,  \* the list of runs given to aggregateShardedRuns
  run,      \* the run the last call returned, when it returned one
  input,    \* the run given to the last filterTests call
  keep,     \* the predicate given to the last filterTests call
  outcome,  \* "ok", or the error the last call threw
  answer,   \* the value the last call returned when that is no run
  compareFn, \* the comparator given to the last sortTests call
  objectPrototype, \* the members of Object.prototype the last call wrote to
  source,   \* the argument of the last parsePlaywrightJson call
  calls,    \* the collaborators the last parsePlaywrightJson call invoked
  issues    \* the issues of the error the last call threw, when it has any

vars ==
  <<op, rev, report, runList, run, input, keep, outcome, answer, compareFn,
    objectPrototype, source, calls, issues>>

----------------------------------------------------------------------------
(* JavaScript values                                                       *)

NoNum == -1

NaN == -2

NumOr(a, b) == IF a # NoNum /\ a # 0 /\ a # NaN THEN a ELSE b

\* a + b on numbers; undefined + n and NaN + n are NaN
JsAdd(a, b) == IF a \in {NaN, NoNum} \/ b \in {NaN, NoNum} THEN NaN ELSE a + b

\* a - b on numbers
JsSub(a, b) == IF a \in {NaN, NoNum} \/ b \in {NaN, NoNum} THEN NaN ELSE a - b

\* A date string is [fmt, t]: fmt "iso" is the form toISOString() prints,
\* "alt" another spelling of the same instant that Date parses, "bad" a
\* string Date cannot parse; t is the instant in milliseconds.
\* new Date(s).getTime()
DateGetTime(s) == IF s.fmt = "bad" THEN NaN ELSE s.t

\* Faulty variant: the time is written one unit off, as a local time would be.
toISOString_shifted(t) == [fmt |-> "iso", t |-> t + 1]

\* new Date(t).toISOString(); throws RangeError when t is NaN
toISOString(t) == [fmt |-> "iso", t |-> t]

MathMin(ns) == IF NaN \in ns THEN NaN ELSE CHOOSE n \in ns : \A m \in ns : n <= m

MathMax(ns) == IF NaN \in ns THEN NaN ELSE CHOOSE n \in ns : \A m \in ns : n >= m

StrOr(a, b) == IF a # <<>> THEN a ELSE b

Str_default == <<"d", "e", "f", "a", "u", "l", "t">>

Str_constructor ==
  <<"c", "o", "n", "s", "t", "r", "u", "c", "t", "o", "r">>
Str_unknown == <<"u", "n", "k", "n", "o", "w", "n">>
Str_undefined == <<"u", "n", "d", "e", "f", "i", "n", "e", "d">>
Str_separator == <<" ", ">", " ">>

\* The characters of the model in UTF-16 code unit order.
Chars ==
  <<" ", "-", ".", "/", "0", "1", "2", "3", "4", "5", "6", "7", "8", "9", ">",
    "_", "a", "b", "c", "d", "e", "f", "g", "h", "i", "j", "k", "l", "m", "n",
    "o", "p", "q", "r", "s", "t", "u", "v", "w", "x", "y", "z">>

CharCode(c) == CHOOSE i \in 1..Len(Chars) : Chars[i] = c

Digits == <<"0", "1", "2", "3", "4", "5", "6", "7", "8", "9">>

IsIdChar(c) ==
  \/ c = "-"
  \/ (CharCode(c) >= CharCode("0") /\ CharCode(c) <= CharCode("9"))
  \/ (CharCode(c) >= CharCode("a") /\ CharCode(c) <= CharCode("z"))

RECURSIVE NumToStr(_)
NumToStr(n) ==
  IF n < 10 THEN <<Digits[n + 1]>>
  ELSE NumToStr(n \div 10) \o <<Digits[(n % 10) + 1]>>

\* `${s}` of a string that may be undefined
Template(s) == IF s = <<>> THEN Str_undefined ELSE s

\* a < b in the order of Array.prototype.sort() without a comparator
RECURSIVE StrLess(_, _)
StrLess(a, b) ==
  IF a = <<>> THEN b # <<>>
  ELSE IF b = <<>> THEN FALSE
  ELSE IF Head(a) = Head(b) THEN StrLess(Tail(a), Tail(b))
  ELSE CharCode(Head(a)) < CharCode(Head(b))

RECURSIVE SortStrings(_)
SortStrings(S) ==
  IF S = {} THEN <<>>
  ELSE LET m == CHOOSE x \in S : \A y \in S \ {x} : StrLess(x, y)
       IN <<m>> \o SortStrings(S \ {m})

RECURSIVE Concat(_)
Concat(ss) == IF ss = <<>> THEN <<>> ELSE Head(ss) \o Concat(Tail(ss))

RECURSIVE Join(_, _)
Join(segs, sep) ==
  IF segs = <<>> THEN <<>>
  ELSE IF Len(segs) = 1 THEN segs[1]
  ELSE segs[1] \o sep \o Join(Tail(segs), sep)

FilterBoolean(segs) == SelectSeq(segs, LAMBDA s : s # <<>>)

Range(s) == {s[i] : i \in 1..Len(s)}

----------------------------------------------------------------------------
(* src/parser/normalizer.ts                                                *)

generateTestId(project, file, title, index) ==
  LET raw == Template(project) \o <<"-">> \o Template(file) \o <<"-">>
               \o Template(title) \o <<"-">> \o NumToStr(index)
  IN [i \in 1..Len(raw) |-> IF IsIdChar(raw[i]) THEN raw[i] ELSE "_"]

extractError(error) ==
  IF error = <<>> THEN <<>>
  ELSE <<[message |-> IF error[1].message # "" THEN error[1].message
                      ELSE "Unknown error"]>>

extractAttachments(attachments) ==
  [i \in 1..Len(attachments) |->
     [name |-> IF attachments[i].name # "" THEN attachments[i].name
               ELSE "attachment",
      contentType |-> IF attachments[i].contentType # ""
                      THEN attachments[i].contentType
                      ELSE "application/octet-stream"]]

extractAnnotations(annotations) ==
  [i \in 1..Len(annotations) |->
     [type |-> IF annotations[i].type # "" THEN annotations[i].type
               ELSE "unknown"]]

\* Faulty variant: an attempt that timed out is not taken for a failure.
determineTestStatus_failedOnly(status, retries, results) ==
  IF status = "skipped" THEN "skipped"
  ELSE IF /\ retries > 0
          /\ status \in {"passed", "expected"}
          /\ \E i \in 1..Len(results) : results[i].status = "failed"
       THEN "flaky"
  ELSE IF status \in {"passed", "expected"} THEN "passed"
  ELSE "failed"

determineTestStatus(status, retries, results) ==
  IF status = "skipped" THEN "skipped"
  ELSE IF /\ retries > 0
          /\ status \in {"passed", "expected"}
          /\ \E i \in 1..Len(results) :
               results[i].status \in {"failed", "timedOut"}
       THEN "flaky"
  ELSE IF status \in {"passed", "expected"} THEN "passed"
  ELSE "failed"

\* results[results.length - 1] || {}
EmptyAttempt ==
  [status |-> "", duration |-> NoNum, error |-> <<>>, errors |-> <<>>,
   attachments |-> <<>>]

\* Faulty variant: the first attempt is read instead of the last.
lastResult_first(results) ==
  IF results = <<>> THEN EmptyAttempt ELSE results[1]

lastResult(results) ==
  IF results = <<>> THEN EmptyAttempt ELSE results[Len(results)]

\* lastResult.error || lastResultErrors[0]
lastError(last) ==
  IF last.error # <<>> THEN last.error
  ELSE IF last.errors # <<>> THEN <<last.errors[1]>>
  ELSE <<>>

LocFile(loc) == IF loc = <<>> THEN <<>> ELSE loc[1].file
LocLine(loc) == IF loc = <<>> THEN NoNum ELSE loc[1].line
LocColumn(loc) == IF loc = <<>> THEN NoNum ELSE loc[1].column

\* The (spec, test, attempt-holder) triples of a suite's specs, in loop order.
SpecTriples(specs) ==
  Concat([s \in 1..Len(specs) |->
    Concat([t \in 1..Len(specs[s].tests) |->
      [h \in 1..Len(specs[s].tests[t].tests) |->
        [spec |-> specs[s], test |-> specs[s].tests[t],
         holder |-> specs[s].tests[t].tests[h]]]])])

\* The (test, attempt-holder) pairs of a suite's legacy test cases.
CasePairs(cases) ==
  Concat([t \in 1..Len(cases) |->
    [h \in 1..Len(cases[t].tests) |->
      [test |-> cases[t], holder |-> cases[t].tests[h]]]])

\* tests.push({...}) of the spec convention; index is tests.length before it
SpecTest(x, suitePath, project, index) ==
  LET specPath == FilterBoolean(Append(suitePath, x.spec.title))
      projectName == StrOr(x.holder.projectName, project)
      results == x.holder.results
      last == lastResult(results)
  IN [id |-> generateTestId(projectName, x.spec.file, x.test.title, index),
      title |-> x.test.title,
      fullTitle |-> Join(FilterBoolean(Append(specPath, x.test.title)),
                         Str_separator),
      file |-> StrOr(LocFile(x.test.location), x.spec.file),
      line |-> NumOr(LocLine(x.test.location), NumOr(x.spec.line, 0)),
      column |-> NumOr(LocColumn(x.test.location), NumOr(x.spec.column, 0)),
      project |-> projectName,
      status |-> determineTestStatus(x.holder.status,
                                     NumOr(x.test.retries, 0), results),
      duration |-> NumOr(last.duration, 0),
      retries |-> NumOr(x.test.retries, 0),
      error |-> extractError(lastError(last)),
      attachments |-> extractAttachments(last.attachments),
      annotations |-> extractAnnotations(x.holder.annotations)]

\* tests.push({...}) of the legacy test-case convention
CaseTest(x, suite, suitePath, project, index) ==
  LET projectName == StrOr(x.holder.projectName, project)
      results == x.holder.results
      last == lastResult(results)
  IN [id |-> generateTestId(projectName, StrOr(suite.file, Str_unknown),
                            x.test.title, index),
      title |-> x.test.title,
      fullTitle |-> Join(FilterBoolean(Append(suitePath, x.test.title)),
                         Str_separator),
      file |-> StrOr(LocFile(x.test.location),
                     StrOr(suite.file, Str_unknown)),
      line |-> NumOr(LocLine(x.test.location), NumOr(suite.line, 0)),
      column |-> NumOr(LocColumn(x.test.location), NumOr(suite.column, 0)),
      project |-> projectName,
      status |-> determineTestStatus(x.holder.status,
                                     NumOr(x.test.retries, 0), results),
      duration |-> NumOr(last.duration, 0),
      retries |-> NumOr(x.test.retries, 0),
      error |-> extractError(lastError(last)),
      attachments |-> extractAttachments(last.attachments),
      annotations |-> extractAnnotations(x.holder.annotations)]

RECURSIVE flattenTests(_, _, _)
RECURSIVE flattenSuites(_, _, _, _, _)

\* One iteration of `for (const suiteRaw of suites)`; tests is the array so far.
\* Faulty variant: the legacy test cases of a suite go before its specs.
flattenSuites_casesFirst(suites, i, tests, parentPath, project) ==
  IF i > Len(suites) THEN tests
  ELSE
    LET suite == suites[i]
        suitePath == FilterBoolean(Append(parentPath, suite.title))
        t1 == tests \o flattenTests(suite.suites, suitePath, project)
        cx == CasePairs(suite.tests)
        t2 == t1 \o [k \in 1..Len(cx) |->
                       CaseTest(cx[k], suite, suitePath, project,
                                Len(t1) + k - 1)]
        sx == SpecTriples(suite.specs)
        t3 == t2 \o [k \in 1..Len(sx) |->
                       SpecTest(sx[k], suitePath, project, Len(t2) + k - 1)]
    IN flattenSuites(suites, i + 1, t3, parentPath, project)

flattenSuites(suites, i, tests, parentPath, project) ==
  IF i > Len(suites) THEN tests
  ELSE
    LET suite == suites[i]
        suitePath == FilterBoolean(Append(parentPath, suite.title))
        t1 == tests \o flattenTests(suite.suites, suitePath, project)
        sx == SpecTriples(suite.specs)
        t2 == t1 \o [k \in 1..Len(sx) |->
                       SpecTest(sx[k], suitePath, project, Len(t1) + k - 1)]
        cx == CasePairs(suite.tests)
        t3 == t2 \o [k \in 1..Len(cx) |->
                       CaseTest(cx[k], suite, suitePath, project,
                                Len(t2) + k - 1)]
    IN flattenSuites(suites, i + 1, t3, parentPath, project)

flattenTests(suites, parentPath, project) ==
  flattenSuites(suites, 1, <<>>, parentPath, project)

CountStatus(tests, s) == Cardinality({i \in 1..Len(tests) : tests[i].status = s})

RECURSIVE SumDuration(_)
SumDuration(tests) ==
  IF tests = <<>> THEN 0
  ELSE JsAdd(SumDuration(SubSeq(tests, 1, Len(tests) - 1)),
             tests[Len(tests)].duration)

calculateTotals(tests) ==
  [total |-> Len(tests),
   passed |-> CountStatus(tests, "passed"),
   failed |-> CountStatus(tests, "failed"),
   skipped |-> CountStatus(tests, "skipped"),
   flaky |-> CountStatus(tests, "flaky"),
   duration |-> SumDuration(tests)]

StatsDuration(r) == IF r.stats = <<>> THEN 0 ELSE NumOr(r.stats[1].duration, 0)

extractShardInfo(r, tests) ==
  IF r.shards = <<>> THEN <<>>
  ELSE <<[i \in 1..Len(r.shards) |->
            [current |-> r.shards[i].current, total |-> r.shards[i].total,
             duration |-> StatsDuration(r), testCount |-> Len(tests)]]>>

RECURSIVE scanSuites(_)
scanSuites(suites) ==
  UNION {
    LET suite == suites[i]
        sx == SpecTriples(suite.specs)
        cx == CasePairs(suite.tests)
    IN scanSuites(suite.suites)
         \cup {sx[k].holder.projectName : k \in 1..Len(sx)}
         \cup {cx[k].holder.projectName : k \in 1..Len(cx)}
    : i \in 1..Len(suites)} \ {<<>>}

extractProjects(r) ==
  SortStrings(Range(r.config.projects) \cup scanSuites(r.suites))

\* runId is randomUUID() and now is new Date().toISOString(), both drawn by
\* the caller of this operator.
normalizeTestRun(r, runId, now) ==
  LET tests == flattenTests(r.suites, <<>>, Str_default)
  IN [runId |-> runId,
      startedAt |-> IF r.stats # <<>> THEN r.stats[1].startTime ELSE now,
      endedAt |-> IF r.stats # <<>> /\ r.stats[1].endTime # <<>>
                  THEN r.stats[1].endTime[1] ELSE now,
      duration |-> StatsDuration(r),
      projects |-> extractProjects(r),
      shards |-> extractShardInfo(r, tests),
      totals |-> calculateTotals(tests),
      tests |-> tests,
      metadata |-> r.config.metadata]

----------------------------------------------------------------------------
(* The other revision of the normalizer (src/unnamed/part_002): the status  *)
(* is mapped from the coarse status token alone (Policy A), and a spec's    *)
(* tests are the attempt-holders themselves.                                *)

determineTestStatusA(status) ==
  CASE status = "expected" -> "passed"
    [] status = "unexpected" -> "failed"
    [] status = "flaky" -> "flaky"
    [] status = "skipped" -> "skipped"
    [] OTHER -> "failed"

\* test.status || "unknown"
StatusOrUnknown(status) == IF status # "" THEN status ELSE "unknown"

\* The (spec, attempt-holder, testIndex) triples of a suite's specs whose
\* attempt-holder has at least one attempt (`if (results.length === 0) continue`).
SpecPairsA(specs) ==
  Concat([s \in 1..Len(specs) |->
    SelectSeq([t \in 1..Len(specs[s].tests) |->
                 [spec |-> specs[s], holder |-> specs[s].tests[t],
                  testIndex |-> t - 1]],
              LAMBDA x : Len(x.holder.results) # 0)])

SpecTestA(x, suite, suitePath, project) ==
  LET projectName == StrOr(x.holder.projectName,
                           StrOr(x.holder.projectId, project))
      results == x.holder.results
      last == results[Len(results)]
      file == StrOr(x.spec.file, StrOr(suite.file, Str_unknown))
  IN [id |-> generateTestId(projectName, file, x.spec.title, x.testIndex),
      title |-> x.spec.title,
      fullTitle |-> Join(FilterBoolean(Append(suitePath, x.spec.title)),
                         Str_separator),
      file |-> file,
      line |-> NumOr(x.spec.line, NumOr(suite.line, 0)),
      column |-> NumOr(x.spec.column, NumOr(suite.column, 0)),
      project |-> projectName,
      status |-> determineTestStatusA(StatusOrUnknown(x.holder.status)),
      duration |-> NumOr(last.duration, 0),
      retries |-> Len(results) - 1,
      error |-> extractError(lastError(last)),
      attachments |-> extractAttachments(last.attachments),
      annotations |-> extractAnnotations(x.holder.annotations)]

CaseTestA(x, suite, suitePath, project, index) ==
  [CaseTest(x, suite, suitePath, project, index) EXCEPT
     !.status = determineTestStatusA(StatusOrUnknown(x.holder.status))]

RECURSIVE flattenTestsA(_, _, _)
RECURSIVE flattenSuitesA(_, _, _, _, _)

flattenSuitesA(suites, i, tests, parentPath, project) ==
  IF i > Len(suites) THEN tests
  ELSE
    LET suite == suites[i]
        suitePath == FilterBoolean(Append(parentPath, suite.title))
        t1 == tests \o flattenTestsA(suite.suites, suitePath, project)
        sx == SpecPairsA(suite.specs)
        t2 == t1 \o [k \in 1..Len(sx) |->
                       SpecTestA(sx[k], suite, suitePath, project)]
        cx == CasePairs(suite.tests)
        t3 == t2 \o [k \in 1..Len(cx) |->
                       CaseTestA(cx[k], suite, suitePath, project,
                                 Len(t2) + k - 1)]
    IN flattenSuitesA(suites, i + 1, t3, parentPath, project)

flattenTestsA(suites, parentPath, project) ==
  flattenSuitesA(suites, 1, <<>>, parentPath, project)

extractShardInfoA(r, tests) ==
  IF r.config.shard = <<>> THEN <<>>
  ELSE << <<[current |-> r.config.shard[1].current,
             total |-> r.config.shard[1].total,
             duration |-> StatsDuration(r), testCount |-> Len(tests)]>> >>

\* endedAt is new Date(new Date(startTime).getTime() + duration).toISOString(),
\* which throws RangeError when startTime does not parse.
normalizeThrowsA(r) ==
  r.stats # <<>> /\ JsAdd(DateGetTime(r.stats[1].startTime), StatsDuration(r)) = NaN

normalizeTestRunA(r, runId, now) ==
  LET tests == flattenTestsA(r.suites, <<>>, Str_default)
  IN [runId |-> runId,
      startedAt |-> IF r.stats # <<>> THEN r.stats[1].startTime ELSE now,
      endedAt |-> IF r.stats # <<>>
                  THEN toISOString(JsAdd(DateGetTime(r.stats[1].startTime),
                                         StatsDuration(r)))
                  ELSE now,
      duration |-> StatsDuration(r),
      projects |-> extractProjects(r),
      shards |-> extractShardInfoA(r, tests),
      totals |-> calculateTotals(tests),
      tests |-> tests,
      metadata |-> r.config.metadata]

----------------------------------------------------------------------------
(* src/utils/filters.ts; a predicate is the set of tests it accepts        *)

\* test.duration || 0
DurationOrZero(t) == NumOr(t.duration, 0)

RECURSIVE SumDurationOrZero(_)
SumDurationOrZero(tests) ==
  IF tests = <<>> THEN 0
  ELSE SumDurationOrZero(SubSeq(tests, 1, Len(tests) - 1))
         + DurationOrZero(tests[Len(tests)])

\* Faulty variant: the result is built field by field and metadata is left out.
filterTests_noMetadata(r, predicate) ==
  [r EXCEPT
     !.tests = SelectSeq(r.tests, LAMBDA t : t \in predicate),
     !.totals = [calculateTotals(SelectSeq(r.tests, LAMBDA t : t \in predicate))
                   EXCEPT !.duration =
                     SumDurationOrZero(SelectSeq(r.tests,
                                                 LAMBDA t : t \in predicate))],
     !.metadata = <<>>]

\* Faulty variant: the totals of the input run are kept.
filterTests_staleTotals(r, predicate) ==
  [r EXCEPT !.tests = SelectSeq(r.tests, LAMBDA t : t \in predicate)]

filterTests(r, predicate) ==
  LET filteredTests == SelectSeq(r.tests, LAMBDA t : t \in predicate)
  IN [r EXCEPT
        !.tests = filteredTests,
        !.totals = [total |-> Len(filteredTests),
                    passed |-> CountStatus(filteredTests, "passed"),
                    failed |-> CountStatus(filteredTests, "failed"),
                    skipped |-> CountStatus(filteredTests, "skipped"),
                    flaky |-> CountStatus(filteredTests, "flaky"),
                    duration |-> SumDurationOrZero(filteredTests)]]

----------------------------------------------------------------------------
(* src/aggregator/shards.ts (src/unnamed/part_003)                          *)

\* runs.flatMap((run) => run.tests)
\* Faulty variant: the tests of the last run come first.
allTests_lastFirst(runs) ==
  Concat([i \in 1..Len(runs) |-> runs[Len(runs) + 1 - i].tests])

allTests(runs) == Concat([i \in 1..Len(runs) |-> runs[i].tests])

\* Faulty variant: the base run's start is taken for the overall start.
overallStartTime_base(runs) == DateGetTime(runs[1].startedAt)

overallStartTime(runs) ==
  MathMin({DateGetTime(runs[i].startedAt) : i \in 1..Len(runs)})

overallEndTime(runs) ==
  MathMax({DateGetTime(runs[i].endedAt) : i \in 1..Len(runs)})

\* Faulty variant: a key keeps the value of the first run that has it.
RECURSIVE mergeMetadata_firstWins(_)
mergeMetadata_firstWins(runs) ==
  IF runs = <<>> THEN <<>>
  ELSE LET acc == mergeMetadata_firstWins(SubSeq(runs, 1, Len(runs) - 1))
           m == runs[Len(runs)].metadata
       IN IF m = <<>> THEN acc
          ELSE [k \in DOMAIN acc \cup DOMAIN m[1] |->
                  IF k \in DOMAIN acc THEN acc[k] ELSE m[1][k]]

\* Object.assign(metadata, run.metadata) for every run that has metadata
RECURSIVE mergeMetadata(_)
mergeMetadata(runs) ==
  IF runs = <<>> THEN <<>>
  ELSE LET acc == mergeMetadata(SubSeq(runs, 1, Len(runs) - 1))
           m == runs[Len(runs)].metadata
       IN IF m = <<>> THEN acc
          ELSE [k \in DOMAIN acc \cup DOMAIN m[1] |->
                  IF k \in DOMAIN m[1] THEN m[1][k] ELSE acc[k]]

\* Faulty variant: the empty list is not turned away; baseRun is undefined.
aggregateOutcome_noLengthCheck(runs) ==
  IF Len(runs) = 0
  THEN "TypeError: Cannot read properties of undefined (reading 'runId')"
  ELSE IF Len(runs) = 1 THEN "ok"
  ELSE IF overallStartTime(runs) = NaN \/ overallEndTime(runs) = NaN
       THEN "RangeError: Invalid time value"
  ELSE "ok"

\* The outcome of aggregateShardedRuns(runs): the error it throws, or "ok".
aggregateOutcome(runs) ==
  IF Len(runs) = 0 THEN "Error: No test runs provided for aggregation"
  ELSE IF Len(runs) = 1 THEN "ok"
  ELSE IF overallStartTime(runs) = NaN \/ overallEndTime(runs) = NaN
       THEN "RangeError: Invalid time value"
  ELSE "ok"

\* Faulty variant: the totals of the inputs are added up, not recounted.
mergeRuns_summedTotals(runs) ==
    LET all == allTests(runs)
        allProjects == UNION {Range(runs[i].projects) : i \in 1..Len(runs)}
        shards == Concat([i \in 1..Len(runs) |->
                            IF runs[i].shards # <<>> THEN runs[i].shards[1]
                            ELSE <<>>])
        metadata == mergeMetadata(runs)
        Summed[i \in 0..Len(runs)] ==
          IF i = 0 THEN [total |-> 0, passed |-> 0, failed |-> 0,
                         skipped |-> 0, flaky |-> 0]
          ELSE [f \in DOMAIN Summed[i - 1] |->
                  Summed[i - 1][f] + runs[i].totals[f]]
    IN [runId |-> runs[1].runId,
        startedAt |-> toISOString(overallStartTime(runs)),
        endedAt |-> toISOString(overallEndTime(runs)),
        duration |-> JsSub(overallEndTime(runs), overallStartTime(runs)),
        projects |-> SortStrings(allProjects),
        shards |-> IF Len(shards) > 0 THEN <<shards>> ELSE <<>>,
        totals |-> [total |-> Summed[Len(runs)].total,
                    passed |-> Summed[Len(runs)].passed,
                    failed |-> Summed[Len(runs)].failed,
                    skipped |-> Summed[Len(runs)].skipped,
                    flaky |-> Summed[Len(runs)].flaky,
                    duration |-> SumDuration(all)],
        tests |-> all,
        metadata |-> IF DOMAIN metadata # {} THEN <<metadata>> ELSE <<>>]

\* The run aggregateShardedRuns builds from two or more runs.
mergeRuns(runs) ==
    LET all == allTests(runs)
        allProjects == UNION {Range(runs[i].projects) : i \in 1..Len(runs)}
        shards == Concat([i \in 1..Len(runs) |->
                            IF runs[i].shards # <<>> THEN runs[i].shards[1]
                            ELSE <<>>])
        metadata == mergeMetadata(runs)
    IN [runId |-> runs[1].runId,
        startedAt |-> toISOString(overallStartTime(runs)),
        endedAt |-> toISOString(overallEndTime(runs)),
        duration |-> JsSub(overallEndTime(runs), overallStartTime(runs)),
        projects |-> SortStrings(allProjects),
        shards |-> IF Len(shards) > 0 THEN <<shards>> ELSE <<>>,
        totals |-> [total |-> Len(all),
                    passed |-> CountStatus(all, "passed"),
                    failed |-> CountStatus(all, "failed"),
                    skipped |-> CountStatus(all, "skipped"),
                    flaky |-> CountStatus(all, "flaky"),
                    duration |-> SumDuration(all)],
        tests |-> all,
        metadata |-> IF DOMAIN metadata # {} THEN <<metadata>> ELSE <<>>]

\* Faulty variant: a single run is merged like a list of several.
aggregateShardedRuns_alwaysMerge(runs) == mergeRuns(runs)

\* The run aggregateShardedRuns(runs) returns when its outcome is "ok".
aggregateShardedRuns(runs) ==
  IF Len(runs) = 1 THEN runs[1] ELSE mergeRuns(runs)

----------------------------------------------------------------------------
(* src/utils/sort.ts (src/unnamed/part_004)                                 *)

\* The characters of the model in the order localeCompare gives them:
\* white space, punctuation, symbols, digits, letters.
Collation ==
  <<" ", "_", "-", ".", "/", ">", "0", "1", "2", "3", "4", "5", "6", "7", "8",
    "9", "a", "b", "c", "d", "e", "f", "g", "h", "i", "j", "k", "l", "m", "n",
    "o", "p", "q", "r", "s", "t", "u", "v", "w", "x", "y", "z">>

CollationKey(c) == CHOOSE i \in 1..Len(Collation) : Collation[i] = c

\* a.localeCompare(b)
RECURSIVE localeCompare(_, _)
localeCompare(a, b) ==
  IF a = <<>> THEN (IF b = <<>> THEN 0 ELSE -1)
  ELSE IF b = <<>> THEN 1
  ELSE IF Head(a) = Head(b) THEN localeCompare(Tail(a), Tail(b))
  ELSE IF CollationKey(Head(a)) < CollationKey(Head(b)) THEN -1 ELSE 1

\* statusOrder[status] ?? 4
statusOrder(status) ==
  CASE status = "failed" -> 0
    [] status = "flaky" -> 1
    [] status = "passed" -> 2
    [] status = "skipped" -> 3
    [] OTHER -> 4

\* sortComparators[by](a, b)
sortComparators(by, a, b) ==
  CASE by = "byDurationDesc" -> NumOr(b.duration, 0) - NumOr(a.duration, 0)
    [] by = "byDurationAsc" -> NumOr(a.duration, 0) - NumOr(b.duration, 0)
    [] by = "byStatus" -> statusOrder(a.status) - statusOrder(b.status)
    [] by = "byTitle" -> localeCompare(a.title, b.title)
    [] by = "byFullTitle" -> localeCompare(a.fullTitle, b.fullTitle)
    [] by = "byFile" -> localeCompare(a.file, b.file)
    [] by = "byProject" -> localeCompare(a.project, b.project)
    [] by = "byRetries" -> b.retries - a.retries
    [] by = "byLocation" ->
         IF localeCompare(a.file, b.file) # 0
         THEN localeCompare(a.file, b.file)
         ELSE IF a.line - b.line # 0 THEN a.line - b.line
         ELSE a.column - b.column

\* A comparator is a list of [by, reversed]: compoundSort(...) of comparators
\* of sortComparators, each as it is or under reverseSort.
RECURSIVE compoundSort(_, _, _)
compoundSort(comparators, a, b) ==
  IF comparators = <<>> THEN 0
  ELSE LET c == Head(comparators)
           result == IF c.reversed THEN 0 - sortComparators(c.by, a, b)
                     ELSE sortComparators(c.by, a, b)
       IN IF result # 0 THEN result
          ELSE compoundSort(Tail(comparators), a, b)

\* Faulty variant: an element goes before the elements it compares equal to.
RECURSIVE insertSorted_beforeEqual(_, _, _)
insertSorted_beforeEqual(sorted, x, comparators) ==
  IF sorted = <<>> THEN <<x>>
  ELSE IF compoundSort(comparators, Head(sorted), x) >= 0
       THEN <<x>> \o sorted
       ELSE <<Head(sorted)>>
              \o insertSorted_beforeEqual(Tail(sorted), x, comparators)

\* One step of Array.prototype.sort, which is stable: x goes after every
\* element that does not come after it.
RECURSIVE insertSorted(_, _, _)
insertSorted(sorted, x, comparators) ==
  IF sorted = <<>> THEN <<x>>
  ELSE IF compoundSort(comparators, Head(sorted), x) > 0
       THEN <<x>> \o sorted
       ELSE <<Head(sorted)>> \o insertSorted(Tail(sorted), x, comparators)

\* [...tests].sort(compareFn)
RECURSIVE ArraySort(_, _)
ArraySort(tests, comparators) ==
  IF tests = <<>> THEN <<>>
  ELSE insertSorted(ArraySort(SubSeq(tests, 1, Len(tests) - 1), comparators),
                    tests[Len(tests)], comparators)

sortTests(r, comparators) ==
  [r EXCEPT !.tests = ArraySort(r.tests, comparators)]

\* The comparators read a.title, a.file and a.project as strings: every test
\* the comparator is given has the strings it calls localeCompare on.
ComparatorDefined(tests, comparators) ==
  \A i \in 1..Len(tests), k \in 1..Len(comparators) :
    /\ comparators[k].by \in {"byFile", "byLocation"} => tests[i].file # <<>>
    /\ comparators[k].by = "byProject" => tests[i].project # <<>>

----------------------------------------------------------------------------
(* src/aggregator/statistics.ts                                            *)

\* values.sort((a, b) => a - b): the k-th element has fewer than k smaller
\* elements and at least k elements that are not larger
SortNumbers(values) ==
  [k \in 1..Len(values) |->
     CHOOSE v \in Range(values) :
       /\ Cardinality({i \in 1..Len(values) : values[i] < v}) < k
       /\ k <= Cardinality({i \in 1..Len(values) : values[i] <= v})]

\* Math.ceil(a / b) for a >= 0, b > 0
MathCeil(a, b) == (a + b - 1) \div b

Max2(a, b) == IF a >= b THEN a ELSE b
Min2(a, b) == IF a <= b THEN a ELSE b

\* Faulty variant: the index is rounded down and not moved back by one.
calculatePercentile_floor(sortedValues, percentile) ==
  IF Len(sortedValues) = 0 THEN 0
  ELSE IF Len(sortedValues) = 1 THEN sortedValues[1]
  ELSE LET index == (percentile * Len(sortedValues)) \div 100
       IN sortedValues[Max2(0, Min2(index, Len(sortedValues) - 1)) + 1]

\* sortedValues[i + 1] here is sortedValues[i] of the code.
calculatePercentile(sortedValues, percentile) ==
  IF Len(sortedValues) = 0 THEN 0
  ELSE IF Len(sortedValues) = 1 THEN sortedValues[1]
  ELSE LET index == MathCeil(percentile * Len(sortedValues), 100) - 1
       IN sortedValues[Max2(0, Min2(index, Len(sortedValues) - 1)) + 1]

\* A quotient is kept as numerator and denominator.
Quotient(a, b) == [num |-> a, den |-> b]

\* The body of the loop of calculateDurationStats; min is <<>> while it is
\* Infinity.
durationStep(acc, test) ==
  LET duration == NumOr(test.duration, 0)
  IN [total |-> acc.total + duration,
      min |-> IF acc.min = <<>> THEN <<duration>>
              ELSE <<Min2(acc.min[1], duration)>>,
      max |-> Max2(acc.max, duration),
      durations |-> Append(acc.durations, duration)]

\* for (const test of tests) of calculateDurationStats on tests[lo..hi]: the
\* values after one test are the values before the next. The first half of
\* the tests is done before the second half starts.
RECURSIVE durationLoop(_, _, _, _)
durationLoop(acc, tests, lo, hi) ==
  IF lo > hi THEN acc
  ELSE IF lo = hi THEN durationStep(acc, tests[lo])
  ELSE LET half == durationLoop(acc, tests, lo, (lo + hi) \div 2)
       IN IF DOMAIN half = DOMAIN acc
          THEN durationLoop(half, tests, (lo + hi) \div 2 + 1, hi)
          ELSE half

calculateDurationStats(tests) ==
  IF Len(tests) = 0
  THEN [total |-> 0, average |-> Quotient(0, 1), median |-> 0, p95 |-> 0,
        min |-> 0, max |-> 0]
  ELSE LET acc == durationLoop([total |-> 0, min |-> <<>>, max |-> 0,
                                durations |-> <<>>],
                               tests, 1, Len(tests))
           sorted == SortNumbers(acc.durations)
       IN [total |-> acc.total,
           average |-> Quotient(acc.total, Len(tests)),
           median |-> calculatePercentile(sorted, 50),
           p95 |-> calculatePercentile(sorted, 95),
           min |-> IF acc.min = <<>> THEN 0 ELSE acc.min[1],
           max |-> acc.max]

initializeGroupStats ==
  [total |-> 0, passed |-> 0, failed |-> 0, skipped |-> 0, flaky |-> 0,
   duration |-> 0]

\* switch (test.status)
CountTest(stats, test) ==
  [stats EXCEPT
     !.passed = IF test.status = "passed" THEN @ + 1 ELSE @,
     !.failed = IF test.status = "failed" THEN @ + 1 ELSE @,
     !.skipped = IF test.status = "skipped" THEN @ + 1 ELSE @,
     !.flaky = IF test.status = "flaky" THEN @ + 1 ELSE @]

updateGroupStats(stats, test) ==
  CountTest([stats EXCEPT !.total = @ + 1,
                          !.duration = @ + NumOr(test.duration, 0)],
            test)

\* The names of the model that an object literal inherits as members of
\* Object.prototype (constructor; toString, valueOf, __proto__ and the
\* others are not among the model's strings).
ObjectPrototypeMembers == {Str_constructor}

\* An object literal is the function from its own keys to their values.
\* groups[key] is truthy when key is an own key, whose value is a group, or
\* the name of an inherited member.
HasOwn(groups, key) == key \in DOMAIN groups
Truthy(groups, key) == HasOwn(groups, key) \/ key \in ObjectPrototypeMembers

\* if (!groups[key]) groups[key] = initializeGroupStats();
\* updateGroupStats(groups[key], test): with an inherited member for
\* groups[key] the counters are written on that member and groups gets no key.
groupStep(groups, key, test) ==
  IF HasOwn(groups, key)
  THEN [groups EXCEPT ![key] = updateGroupStats(@, test)]
  ELSE IF Truthy(groups, key) THEN groups
  ELSE (key :> updateGroupStats(initializeGroupStats, test)) @@ groups

\* The members of Object.prototype that updateGroupStats writes to
prototypeStep(written, groups, key) ==
  IF ~HasOwn(groups, key) /\ Truthy(groups, key) THEN written \cup {key}
  ELSE written

\* The body of the loop of calculateStatistics
statisticsStep(state, test) ==
  LET stats == state.stats
      project == StrOr(test.project, Str_default)
      file == StrOr(test.file, Str_unknown)
  IN [stats |->
        [CountTest([stats EXCEPT !.total = @ + 1], test) EXCEPT
           !.byProject = groupStep(stats.byProject, project, test),
           !.byFile = groupStep(stats.byFile, file, test)],
      written |->
        prototypeStep(prototypeStep(state.written, stats.byProject, project),
                      stats.byFile, file)]

\* for (const test of run.tests) of calculateStatistics on tests[lo..hi],
\* in order like durationLoop
RECURSIVE statisticsLoop(_, _, _, _)
statisticsLoop(state, tests, lo, hi) ==
  IF lo > hi THEN state
  ELSE IF lo = hi THEN statisticsStep(state, tests[lo])
  ELSE LET half == statisticsLoop(state, tests, lo, (lo + hi) \div 2)
       IN IF DOMAIN half = DOMAIN state
          THEN statisticsLoop(half, tests, (lo + hi) \div 2 + 1, hi)
          ELSE half

\* The object without keys
EmptyObject == [key \in {} |-> initializeGroupStats]

\* calculateStatistics(run): the statistics returned and the members of
\* Object.prototype written to
calculateStatistics(r) ==
  LET stats == [total |-> 0, passed |-> 0, failed |-> 0, skipped |-> 0,
                flaky |-> 0, duration |-> calculateDurationStats(<<>>),
                byProject |-> EmptyObject, byFile |-> EmptyObject]
      initial == [stats |-> stats, written |-> {}]
  IN IF Len(r.tests) = 0 THEN initial
     ELSE LET state == statisticsLoop(initial, r.tests, 1, Len(r.tests))
          IN [state EXCEPT !.stats.duration = calculateDurationStats(r.tests)]

----------------------------------------------------------------------------
(* src/aggregator/shards.ts, continued                                     *)

\* run.shards && run.shards.length > 0
HasShards(r) == r.shards # <<>> /\ Len(r.shards[1]) > 0

\* The ShardInfo entries of all runs, in the order of the two nested loops.
allShardInfos(runs) ==
  Concat([i \in 1..Len(runs) |->
            IF runs[i].shards # <<>> THEN runs[i].shards[1] ELSE <<>>])

\* Faulty variant: a shard number is only looked up among those of its own run.
areRunsFromSameExecution_perRun(runs) ==
  IF Len(runs) <= 1 THEN TRUE
  ELSE IF ~(\A i \in 1..Len(runs) : HasShards(runs[i])) THEN FALSE
  ELSE IF ~(\A i \in 1..Len(runs) :
              runs[i].shards[1][1].total = runs[1].shards[1][1].total)
       THEN FALSE
  ELSE \A i \in 1..Len(runs) :
         \A j, k \in 1..Len(runs[i].shards[1]) :
           j # k => runs[i].shards[1][j].current # runs[i].shards[1][k].current

areRunsFromSameExecution(runs) ==
  IF Len(runs) <= 1 THEN TRUE
  ELSE IF ~(\A i \in 1..Len(runs) : HasShards(runs[i])) THEN FALSE
  ELSE LET totalShards == runs[1].shards[1][1].total
           shardNumbers == allShardInfos(runs)
       IN IF ~(\A i \in 1..Len(runs) :
                 runs[i].shards[1][1].total = totalShards)
          THEN FALSE
          ELSE \A j, k \in 1..Len(shardNumbers) :
                 j # k => shardNumbers[j].current # shardNumbers[k].current

----------------------------------------------------------------------------
(* Inputs                                                                  *)

MaxAttempts == 3
MaxPayloadAttempts == 2
MaxRetries == 2
MaxDuration == 1
MaxSuites == 3
MaxDepth == 2
MaxHolders == 2
MaxTime == 2
MaxRuns == 3
MaxFilterLen == 2
MaxTests == 3

SeqsUpTo(S, n) == UNION {[1..k -> S] : k \in 0..n}

Proj_p == <<"p">>
Proj_q == <<"q">>
File_a == <<"a", ".", "t", "s">>
File_s == <<"s", ".", "t", "s">>
File_t == <<"t", ".", "t", "s">>
Title_t == <<"t">>
Title_u == <<"u">>
Title_s == <<"s">>

MkAttempt(status, duration, error, errors, attachments) ==
  [status |-> status, duration |-> duration, error |-> error,
   errors |-> errors, attachments |-> attachments]

MkHolder(projectName, status, results) ==
  [projectName |-> projectName, projectId |-> <<>>, status |-> status,
   results |-> results, annotations |-> <<>>]

\* A test case: an entry of spec.tests (revision B) or of suite.tests.
MkCase(title, retries, location, holders) ==
  [title |-> title, retries |-> retries, location |-> location,
   tests |-> holders, projectName |-> <<>>, projectId |-> <<>>,
   status |-> "", results |-> <<>>, annotations |-> <<>>]

\* An entry of spec.tests that is itself the attempt-holder (revision A).
MkHolderEntry(h) ==
  [title |-> <<>>, retries |-> NoNum, location |-> <<>>, tests |-> <<>>,
   projectName |-> h.projectName, projectId |-> h.projectId,
   status |-> h.status, results |-> h.results,
   annotations |-> h.annotations]

NoLoc == [file |-> <<>>, line |-> NoNum, column |-> NoNum]

MkLoc(file, line, column) == [file |-> file, line |-> line, column |-> column]

MkSpec(title, loc, entries) ==
  [title |-> title, file |-> loc.file, line |-> loc.line,
   column |-> loc.column, tests |-> entries]

MkSuite(title, loc, suites, specs, cases) ==
  [title |-> title, file |-> loc.file, line |-> loc.line,
   column |-> loc.column, suites |-> suites, specs |-> specs,
   tests |-> cases]

MkStats(startTime, endTime, duration) ==
  [startTime |-> startTime, endTime |-> endTime, duration |-> duration]

Iso(t) == [fmt |-> "iso", t |-> t]
Alt(t) == [fmt |-> "alt", t |-> t]
Bad == [fmt |-> "bad", t |-> 0]

DefaultStats == <<MkStats(Iso(0), <<Iso(1)>>, 1)>>

MkReport(suites, projects, stats, shards, metadata) ==
  [config |-> [projects |-> projects, metadata |-> metadata,
               shard |-> IF shards = <<>> THEN <<>> ELSE <<shards[1]>>],
   suites |-> suites, stats |-> stats, shards |-> shards]

PlainReport(suites) == MkReport(suites, <<>>, DefaultStats, <<>>, <<>>)

\* The entries of a spec that hold the attempt-holder h of a test titled
\* title, as the revision reads a spec.
SpecEntries(r, title, retries, location, h) ==
  IF r = "B" THEN <<MkCase(title, retries, location, <<h>>)>>
  ELSE <<MkHolderEntry(h)>>

\* A report of one suite with one attempt-holder, under the convention conv.
LeafSuite(r, conv, title, retries, h) ==
  IF conv = "spec"
  THEN MkSuite(Title_s, NoLoc, <<>>,
               <<MkSpec(title, MkLoc(File_a, 3, 1),
                        SpecEntries(r, title, retries, <<>>, h))>>, <<>>)
  ELSE MkSuite(Title_s, MkLoc(File_a, 1, 1), <<>>, <<>>,
               <<MkCase(title, retries, <<>>, <<h>>)>>)

Conventions == {"spec", "case"}

CoarseStatuses == {"expected", "unexpected", "skipped", "flaky", "passed", ""}

AttemptStatuses == {"passed", "failed", "timedOut"}

RetriesValues == {NoNum} \cup 0..MaxRetries

\* One attempt-holder; coarse status, reported retries and attempt statuses vary.
StatusReports(r) ==
  {PlainReport(<<LeafSuite(r, conv, Title_t, retries,
                           MkHolder(Proj_p, status, results))>>) :
     conv \in Conventions, status \in CoarseStatuses,
     retries \in RetriesValues,
     results \in SeqsUpTo({MkAttempt(s, 1, <<>>, <<>>, <<>>) :
                             s \in AttemptStatuses}, MaxAttempts)}

Err(m) == [message |-> m]

ErrorShapes ==
  { [error |-> <<>>, errors |-> <<>>],
    [error |-> <<Err("boom")>>, errors |-> <<Err("boom"), Err("later")>>],
    [error |-> <<>>, errors |-> <<Err("")>>] }

AttachmentLists == { <<>>, <<[name |-> "trace", contentType |-> ""]>> }

\* Attempts that differ in their duration, and attempts that differ in their
\* error fields and attachments.
PayloadAttempts ==
  {MkAttempt("passed", d, <<>>, <<>>, <<>>) :
     d \in {NoNum} \cup 0..MaxDuration}
  \cup {MkAttempt(IF e.errors = <<>> THEN "passed" ELSE "failed", 0, e.error,
                  e.errors, a) :
          e \in ErrorShapes, a \in AttachmentLists}

\* One attempt-holder; duration, error and attachments of its attempts vary.
PayloadReports(r) ==
  {PlainReport(<<LeafSuite(r, conv, Title_t, NoNum,
                           MkHolder(Proj_p, "expected", results))>>) :
     conv \in Conventions,
     results \in SeqsUpTo(PayloadAttempts, MaxPayloadAttempts)}

OneAttempt == <<MkAttempt("passed", 1, <<>>, <<>>, <<>>)>>

\* What a suite of a tree holds itself: nothing, a spec or a test case (the
\* root may hold both), all with the same title, project and file.
SuiteKinds == {"empty", "spec", "case"}

KindSuite(r, kind, suites) ==
  MkSuite(Title_s, NoLoc, suites,
          IF kind \in {"spec", "both"}
          THEN <<MkSpec(Title_t, MkLoc(File_a, 3, 1),
                        SpecEntries(r, Title_t, NoNum, <<>>,
                                    MkHolder(<<>>, "expected", OneAttempt)))>>
          ELSE <<>>,
          IF kind \in {"case", "both"}
          THEN <<MkCase(Title_t, NoNum, <<>>,
                        <<MkHolder(<<>>, "expected", OneAttempt)>>)>>
          ELSE <<>>)

\* The lists of suites (forests) of exactly n suites, nested in every way.
RECURSIVE Forests(_, _)
Forests(r, n) ==
  IF n = 0 THEN {<<>>}
  ELSE UNION {
         {<<KindSuite(r, kind, children)>> \o rest :
            kind \in SuiteKinds, children \in Forests(r, k - 1),
            rest \in Forests(r, n - k)}
         : k \in 1..n}

TreeReports(r) ==
  {PlainReport(f) : f \in UNION {Forests(r, n) : n \in 1..MaxSuites}}
  \cup {PlainReport(<<KindSuite(r, "both", f)>>) :
          f \in UNION {Forests(r, n) : n \in 0..(MaxSuites - 1)}}

\* The location a suite at nesting level k declares.
SuiteLoc(k) == MkLoc(File_s, 9 + k, 5)
SpecLoc == MkLoc(File_a, 3, 2)
TestLoc == MkLoc(File_t, 7, 4)

\* A chain of d nested suites with the leaf in the innermost; has[k] tells
\* whether the suite at level k declares a location.
RECURSIVE ChainSuite(_, _, _, _, _, _, _)
ChainSuite(r, conv, has, k, d, specLoc, testLoc) ==
  LET loc == IF has[k] THEN SuiteLoc(k) ELSE NoLoc
      h == MkHolder(Proj_p, "expected", OneAttempt)
  IN IF k < d
     THEN MkSuite(Title_s, loc,
                  <<ChainSuite(r, conv, has, k + 1, d, specLoc, testLoc)>>,
                  <<>>, <<>>)
     ELSE IF conv = "spec"
     THEN MkSuite(Title_s, loc, <<>>,
                  <<MkSpec(Title_t, specLoc,
                           SpecEntries(r, Title_t, NoNum, testLoc, h))>>,
                  <<>>)
     ELSE MkSuite(Title_s, loc, <<>>, <<>>,
                  <<MkCase(Title_t, NoNum, testLoc, <<h>>)>>)

LocationReports(r) ==
  {PlainReport(<<ChainSuite(r, conv, has, 1, d, specLoc, testLoc)>>) :
     conv \in Conventions, d \in 1..MaxDepth,
     has \in [1..MaxDepth -> BOOLEAN],
     specLoc \in {NoLoc, SpecLoc}, testLoc \in {<<>>, <<TestLoc>>}}

HolderKinds ==
  { MkHolder(Proj_p, "expected", OneAttempt),
    MkHolder(Proj_q, "unexpected",
             <<MkAttempt("failed", 2, <<Err("boom")>>, <<>>, <<>>)>>),
    MkHolder(<<>>, "skipped", <<>>),
    MkHolder(Proj_p, "flaky",
             <<MkAttempt("failed", 1, <<>>, <<>>, <<>>),
               MkAttempt("passed", 1, <<>>, <<>>, <<>>)>>) }

\* One suite whose test cases have attempt-holders of mixed outcome.
MixedReports(r) ==
  {MkReport(<<MkSuite(Title_s, MkLoc(File_a, 1, 1), <<>>, <<>>,
                      [i \in 1..Len(hs) |->
                         MkCase(IF i = 1 THEN Title_t ELSE Title_u, 1, <<>>,
                                <<hs[i]>>)])>>,
            projects, DefaultStats, <<>>, <<>>) :
     hs \in SeqsUpTo(HolderKinds, MaxHolders),
     projects \in {<<>>, <<Proj_q, Proj_p>>}}

ShardLists == { <<>>, <<[current |-> 1, total |-> 2]>> }

StatsValues ==
  { <<>>, <<MkStats(Alt(1), <<>>, 0)>>, <<MkStats(Bad, <<Iso(2)>>, 2)>>,
    <<MkStats(Iso(1), <<Iso(2)>>, NoNum)>> }

MetadataValues == { <<>>, <<[ci |-> "yes"]>> }

\* One attempt-holder; stats, shards and metadata of the report vary.
ConfigReports(r) ==
  {MkReport(<<LeafSuite(r, "case", Title_t, NoNum,
                        MkHolder(Proj_p, "expected", OneAttempt))>>,
            <<>>, stats, shards, metadata) :
     stats \in StatsValues, shards \in ShardLists,
     metadata \in MetadataValues}

TitledSpec(r, title) ==
  MkSpec(title, MkLoc(File_a, 3, 1),
         SpecEntries(r, title, NoNum, <<>>,
                     MkHolder(Proj_p, "expected", OneAttempt)))

TitledCase(title) ==
  MkCase(title, NoNum, <<>>, <<MkHolder(Proj_p, "expected", OneAttempt)>>)

\* Two sibling suites, the first with a child suite, specs and test cases,
\* every test under a title of its own; has tells which parts are there.
OrderReports(r) ==
  {PlainReport(
     <<MkSuite(Title_s, NoLoc,
               IF has[1]
               THEN <<MkSuite(Title_u, NoLoc, <<>>,
                              <<TitledSpec(r, <<"a">>)>>,
                              <<TitledCase(<<"b">>)>>)>>
               ELSE <<>>,
               (IF has[2] THEN <<TitledSpec(r, <<"c">>)>> ELSE <<>>)
                 \o (IF has[3] THEN <<TitledSpec(r, <<"d">>)>> ELSE <<>>),
               (IF has[4] THEN <<TitledCase(<<"e">>)>> ELSE <<>>)
                 \o (IF has[5] THEN <<TitledCase(<<"f">>)>> ELSE <<>>))>>
       \o (IF has[6]
           THEN <<MkSuite(Title_t, NoLoc, <<>>, <<>>,
                          <<TitledCase(<<"g">>)>>)>>
           ELSE <<>>)) :
     has \in [1..6 -> BOOLEAN]}

Reports(r) ==
  StatusReports(r) \cup PayloadReports(r) \cup TreeReports(r)
    \cup LocationReports(r) \cup MixedReports(r) \cup ConfigReports(r)
    \cup OrderReports(r)

RunIds == {"run-1"}

Clock == {Iso(MaxTime)}

MkTest(id, project, status, duration) ==
  [id |-> id, title |-> Title_t, fullTitle |-> Title_t, file |-> File_a,
   line |-> 1, column |-> 1, project |-> project, status |-> status,
   duration |-> duration, retries |-> 0, error |-> <<>>,
   attachments |-> <<>>, annotations |-> <<>>]

Test_1 == MkTest(<<"1">>, Proj_p, "passed", 1)
Test_2 == MkTest(<<"2">>, Proj_q, "failed", 2)
Test_3 == MkTest(<<"3">>, Proj_p, "flaky", 1)
Test_4 == MkTest(<<"4">>, Proj_p, "skipped", 0)

MkRun(runId, startedAt, endedAt, tests) ==
  [runId |-> runId, startedAt |-> startedAt, endedAt |-> endedAt,
   duration |-> JsSub(DateGetTime(endedAt), DateGetTime(startedAt)),
   projects |-> SortStrings({tests[i].project : i \in 1..Len(tests)}),
   shards |-> <<>>, totals |-> calculateTotals(tests), tests |-> tests,
   metadata |-> <<>>]

\* Runs that differ in their timestamps.
TimeRuns ==
  {MkRun("run-1", Iso(w[1]), Iso(w[2]), <<Test_1>>) :
     w \in {v \in (0..MaxTime) \X (0..MaxTime) : v[1] < v[2]}}
  \cup {MkRun("run-2", Alt(0), Alt(1), <<Test_1>>),
        MkRun("run-1", Bad, Iso(1), <<Test_1>>),
        MkRun("run-1", Iso(0), Bad, <<Test_1>>)}

\* Runs that differ in their tests and run id.
TestRuns ==
  {MkRun("run-2", Iso(0), Iso(1), tests) :
     tests \in { <<>>, <<Test_2>>, <<Test_3, Test_4>>, <<Test_1, Test_2>> }}

\* A run whose totals were not computed from its tests.
StaleRun ==
  [MkRun("run-2", Iso(1), Iso(2), <<Test_2>>) EXCEPT
     !.totals = [total |-> 5, passed |-> 5, failed |-> 0, skipped |-> 0,
                 flaky |-> 0, duration |-> 9]]

MkShard(current, total) ==
  [current |-> current, total |-> total, duration |-> 1, testCount |-> 1]

\* The shards field of a run: absent, empty, one entry, or several entries as
\* an earlier aggregation leaves them.
ShardValues ==
  { <<>>, << <<>> >>,
    << <<MkShard(1, 2)>> >>, << <<MkShard(2, 2)>> >>,
    << <<MkShard(1, 3)>> >>, << <<MkShard(3, 3)>> >>,
    << <<MkShard(3, 2)>> >>,
    << <<MkShard(1, 2), MkShard(2, 2)>> >>,
    << <<MkShard(1, 2), MkShard(2, 3)>> >> }

\* Runs that differ in their shards.
ShardRuns ==
  {[MkRun("run-1", Iso(0), Iso(1), <<Test_1>>) EXCEPT !.shards = sh] :
     sh \in ShardValues}

\* A test without project, file and duration; a test of a project named like
\* a member of Object.prototype; a test of another title, file and line.
Test_5 == [MkTest(<<"5">>, <<>>, "passed", NoNum) EXCEPT !.file = <<>>]
Test_6 == MkTest(<<"6">>, Str_constructor, "failed", 2)
Test_7 ==
  [MkTest(<<"7">>, Proj_q, "passed", 3) EXCEPT
     !.title = Title_u, !.file = File_s, !.line = 9, !.retries = 1]

GivenTests == {Test_1, Test_2, Test_3, Test_4, Test_5, Test_6, Test_7}

\* A run of 100 tests with the durations 10, 20, ..., 1000 in mixed order.
HundredRun ==
  [MkRun("run-1", Iso(0), Iso(1), <<>>) EXCEPT
     !.projects = <<Proj_p>>,
     !.tests = [i \in 1..100 |->
                  MkTest(NumToStr(i), Proj_p, "passed",
                         10 * (((i * 37) % 100) + 1))],
     !.totals = [total |-> 100, passed |-> 100, failed |-> 0, skipped |-> 0,
                 flaky |-> 0, duration |-> 50500]]

\* The runs given to sortTests and calculateStatistics.
GivenRuns ==
  {MkRun("run-1", Iso(0), Iso(1), tests) :
     tests \in SeqsUpTo(GivenTests, MaxTests)}
  \cup {HundredRun}

Plain(by) == <<[by |-> by, reversed |-> FALSE]>>

\* The comparators of sortComparators, reverseSort of one, compoundSort of two.
Comparators ==
  {Plain(by) : by \in {"byDurationDesc", "byDurationAsc", "byStatus",
                        "byTitle", "byFullTitle", "byFile", "byProject",
                        "byRetries", "byLocation"}}
  \cup { <<[by |-> "byStatus", reversed |-> TRUE]>>,
         Plain("byStatus") \o Plain("byDurationDesc") }

\* The metadata field of a run: absent, the empty object, one key, two keys.
RunMetadataValues ==
  { <<>>, << <<>> >>, <<[ci |-> "a"]>>, <<[ci |-> "b", os |-> "x"]>> }

\* Runs that differ in their metadata.
MetadataRuns ==
  {[MkRun("run-1", Iso(0), Iso(1), <<Test_1>>) EXCEPT !.metadata = md] :
     md \in RunMetadataValues}

\* Lists of runs that differ in their timestamps, in their tests, in their
\* shards, in their metadata.
RunLists ==
  SeqsUpTo(TimeRuns, MaxRuns) \cup SeqsUpTo(TestRuns \cup {StaleRun}, MaxRuns)
    \cup SeqsUpTo(ShardRuns, MaxRuns) \cup SeqsUpTo(MetadataRuns, MaxRuns)

----------------------------------------------------------------------------
(* src/parser/validator.ts (lines 1-213) and src/parser/parser.ts          *)

\* An issue of the schema is the name of the field that is missing. Each
\* schema gives the issues of a value on the fields of the model.

\* TestAttemptSchema: duration is required.
AttemptIssues(a) == IF a.duration = NoNum THEN {"duration"} ELSE {}

\* TestResultSchema: projectName and status are required.
HolderIssues(h) ==
  (IF h.projectName = <<>> THEN {"projectName"} ELSE {})
  \cup (IF h.status = "" THEN {"status"} ELSE {})
  \cup UNION {AttemptIssues(h.results[i]) : i \in 1..Len(h.results)}

\* LocationSchema: file, line and column are required.
LocationIssues(l) ==
  (IF l.file = <<>> THEN {"file"} ELSE {})
  \cup (IF l.line = NoNum THEN {"line"} ELSE {})
  \cup (IF l.column = NoNum THEN {"column"} ELSE {})

\* TestCaseSchema: title and retries are required, location is optional.
CaseIssues(c) ==
  (IF c.title = <<>> THEN {"title"} ELSE {})
  \cup (IF c.retries = NoNum THEN {"retries"} ELSE {})
  \cup (IF c.location # <<>> THEN LocationIssues(c.location[1]) ELSE {})
  \cup UNION {HolderIssues(c.tests[i]) : i \in 1..Len(c.tests)}

\* SpecSchema: title, file, line and column are required.
SpecIssues(sp) ==
  (IF sp.title = <<>> THEN {"title"} ELSE {})
  \cup LocationIssues(sp)
  \cup UNION {CaseIssues(sp.tests[i]) : i \in 1..Len(sp.tests)}

\* SuiteSchema: title is required, the schema recurs into suites.
RECURSIVE SuiteIssues(_)
SuiteIssues(su) ==
  (IF su.title = <<>> THEN {"title"} ELSE {})
  \cup UNION {SuiteIssues(su.suites[i]) : i \in 1..Len(su.suites)}
  \cup UNION {SpecIssues(su.specs[i]) : i \in 1..Len(su.specs)}
  \cup UNION {CaseIssues(su.tests[i]) : i \in 1..Len(su.tests)}

\* The issues of PlaywrightJsonSchema.parse(data); stats is optional, its
\* duration is required.
SchemaIssues(r) ==
  UNION {SuiteIssues(r.suites[i]) : i \in 1..Len(r.suites)}
  \cup (IF r.stats # <<>> /\ r.stats[1].duration = NoNum THEN {"duration"}
        ELSE {})

\* PlaywrightJsonSchema.parse(data) succeeds
SchemaAccepts(r) == SchemaIssues(r) = {}

\* An error object
MkError(name, code, message) ==
  [name |-> name, code |-> code, message |-> message]

\* What a rejection or an uncaught throw shows: name and message
ErrorText(e) == e.name \o ": " \o e.message

\* The error fs.readFile rejects with for the system error code on path
SystemError(code, path) ==
  MkError("Error", code,
          code \o ": "
            \o (CASE code = "ENOENT" -> "no such file or directory"
                  [] code = "EACCES" -> "permission denied"
                  [] code = "EISDIR" -> "illegal operation on a directory")
            \o ", open '" \o path \o "'")

\* The error JSON.parse throws for text that is no JSON
JsonSyntaxError ==
  MkError("SyntaxError", "", "Unexpected token i in JSON at position 0")

\* The error Buffer.toString throws for a buffer longer than a string can be
StringTooLong ==
  MkError("Error", "ERR_STRING_TOO_LONG",
          "Cannot create a string longer than 0x1fffffe8 characters")

ReadFaults == {"ENOENT", "EACCES", "EISDIR"}

\* The argument of a call is [kind, path, fault]: kind is what the argument
\* is, path the string of a path argument, fault what goes wrong with it:
\* a read fault, "syntax" for text that is no JSON, "tooLong" for a buffer
\* that cannot become a string, "noReport" for a value that is no report,
\* "none" when the argument holds the report of the state.
MkSource(kind, path, fault) == [kind |-> kind, path |-> path, fault |-> fault]

\* new ValidationError(message, issues); issues is <<>> when not given
MkValidationError(message, found) ==
  [name |-> "ValidationError", code |-> "", message |-> message,
   issues |-> found]

\* error.issues
IssuesOf(error) == IF "issues" \in DOMAIN error THEN error.issues ELSE <<>>

\* The issues of a value that is no report: config and suites are missing.
NoReportIssues == {"config", "suites"}

\* Faulty variant: the ValidationError is made without the issues.
validatePlaywrightJson_noIssues(src, data) ==
  IF src.fault = "noReport" \/ ~SchemaAccepts(data[1])
  THEN <<MkValidationError("Invalid Playwright JSON report", <<>>)>>
  ELSE <<>>

\* validatePlaywrightJson(data): the error thrown, <<>> when data passes
validatePlaywrightJson(src, data) ==
  LET found == IF src.fault = "noReport" THEN NoReportIssues
               ELSE SchemaIssues(data[1])
  IN IF found # {}
     THEN <<MkValidationError("Invalid Playwright JSON report", <<found>>)>>
     ELSE <<>>

\* Faulty variant: a JSON syntax failure is looked for before ENOENT and
\* every other failure is reported as a missing file.
catchRead_notFoundLast(error, path) ==
  IF error.name = "SyntaxError"
  THEN MkError("ValidationError", "",
               "Invalid JSON in file " \o path \o ": " \o error.message)
  ELSE MkError("Error", "", "File not found: " \o path)

\* The catch block of the path branch
catchRead(error, path) ==
  IF error.code = "ENOENT"
  THEN MkError("Error", "", "File not found: " \o path)
  ELSE IF error.name = "SyntaxError"
  THEN MkError("ValidationError", "",
               "Invalid JSON in file " \o path \o ": " \o error.message)
  ELSE error

\* The catch block of the Buffer branch
catchDecode(error) ==
  IF error.name = "SyntaxError"
  THEN MkError("ValidationError", "",
               "Invalid JSON in buffer: " \o error.message)
  ELSE error

\* The first part of parsePlaywrightJson, up to jsonData: the collaborators
\* called and the error thrown (<<>> when jsonData is set).
decodeInput(src) ==
  IF src.kind = "path"
  THEN IF src.fault \in ReadFaults
       THEN [calls |-> <<"readFile">>,
             thrown |-> <<catchRead(SystemError(src.fault, src.path),
                                    src.path)>>]
       ELSE IF src.fault = "syntax"
       THEN [calls |-> <<"readFile", "JSON.parse">>,
             thrown |-> <<catchRead(JsonSyntaxError, src.path)>>]
       ELSE [calls |-> <<"readFile", "JSON.parse">>, thrown |-> <<>>]
  ELSE IF src.kind = "Buffer"
  THEN IF src.fault = "tooLong"
       THEN [calls |-> <<"toString">>,
             thrown |-> <<catchDecode(StringTooLong)>>]
       ELSE IF src.fault = "syntax"
       THEN [calls |-> <<"toString", "JSON.parse">>,
             thrown |-> <<catchDecode(JsonSyntaxError)>>]
       ELSE [calls |-> <<"toString", "JSON.parse">>, thrown |-> <<>>]
  ELSE IF src.kind = "object"
  THEN [calls |-> <<>>, thrown |-> <<>>]
  ELSE [calls |-> <<>>,
        thrown |-> <<MkError("Error", "",
          "Input must be a file path string, JSON object, or Buffer")>>]

\* parsePlaywrightJson(input), data being the report the input holds: the
\* collaborators called, the error thrown and the run returned
parsePlaywrightJson(src, data, runId, now) ==
  LET decoded == decodeInput(src)
      invalid == validatePlaywrightJson(src, data)
  IN IF decoded.thrown # <<>>
     THEN [calls |-> decoded.calls, thrown |-> decoded.thrown, run |-> <<>>]
     ELSE IF invalid # <<>>
     THEN [calls |-> decoded.calls \o <<"validatePlaywrightJson">>,
           thrown |-> invalid, run |-> <<>>]
     ELSE [calls |-> decoded.calls
                       \o <<"validatePlaywrightJson", "normalizeTestRun">>,
           thrown |-> <<>>,
           run |-> <<normalizeTestRun(data[1], runId, now)>>]

Paths == {"/a.json", "/b.json"}

\* Arguments that hold no report
FaultySources ==
  {MkSource(kind, "", "none") : kind \in {"number", "null", "boolean"}}
  \cup {MkSource("path", path, fault) :
          path \in Paths, fault \in ReadFaults \cup {"syntax", "noReport"}}
  \cup {MkSource("Buffer", "", fault) :
          fault \in {"syntax", "tooLong", "noReport"}}
  \cup {MkSource("object", "", "noReport")}

\* Arguments that hold the report of the state
ReportSources ==
  {MkSource("path", path, "none") : path \in Paths}
  \cup {MkSource("Buffer", "", "none"), MkSource("object", "", "none")}

\* The reports given to parsePlaywrightJson
ParsedReports == MixedReports("B") \cup ConfigReports("B")

----------------------------------------------------------------------------
(* The state machine: one call of the library per step                      *)

Init ==
  /\ op = "init"
  /\ input = <<>>
  /\ keep = {}
  /\ outcome = "ok"
  /\ answer = <<>>
  /\ compareFn = <<>>
  /\ objectPrototype = {}
  /\ source = <<>>
  /\ calls = <<>>
  /\ issues = <<>>
  /\ \/ /\ rev \in {"A", "B"}
        /\ report \in {<<r>> : r \in Reports(rev)}
        /\ runList = <<>>
        /\ run = <<>>
     \/ /\ rev = ""
        /\ report = <<>>
        /\ runList \in RunLists
        /\ run = <<>>
     \/ /\ rev = ""
        /\ report = <<>>
        /\ runList = <<>>
        /\ run \in {<<r>> : r \in GivenRuns}

\* normalizeTestRun(report) of src/parser/normalizer.ts
Normalize ==
  /\ op = "init" /\ rev = "B" /\ report # <<>>
  /\ \E runId \in RunIds, now \in Clock :
       run' = <<normalizeTestRun(report[1], runId, now)>>
  /\ op' = "normalize"
  /\ outcome' = "ok"
  /\ UNCHANGED <<rev, report, runList, input, keep, answer, compareFn,
                 objectPrototype, source, calls, issues>>

\* normalizeTestRun(report) of src/unnamed/part_002
NormalizeA ==
  /\ op = "init" /\ rev = "A" /\ report # <<>>
  /\ op' = "normalize"
  /\ IF normalizeThrowsA(report[1])
     THEN /\ outcome' = "RangeError: Invalid time value"
          /\ run' = <<>>
     ELSE /\ outcome' = "ok"
          /\ \E runId \in RunIds, now \in Clock :
               run' = <<normalizeTestRunA(report[1], runId, now)>>
  /\ UNCHANGED <<rev, report, runList, input, keep, answer, compareFn,
                 objectPrototype, source, calls, issues>>

\* filterTests(run, predicate) on the run in hand
Filter ==
  /\ run # <<>>
  /\ Len(run[1].tests) <= MaxFilterLen
  /\ \E predicate \in SUBSET Range(run[1].tests) :
       /\ keep' = predicate
       /\ run' = <<filterTests(run[1], predicate)>>
  /\ input' = run
  /\ op' = "filter"
  /\ outcome' = "ok"
  /\ answer' = <<>>
  /\ compareFn' = <<>>
  /\ UNCHANGED <<rev, report, runList, objectPrototype, source, calls,
                 issues>>

\* aggregateShardedRuns(runList)
Aggregate ==
  /\ op = "init" /\ report = <<>>
  /\ op' = "aggregate"
  /\ outcome' = aggregateOutcome(runList)
  /\ run' = IF aggregateOutcome(runList) = "ok"
            THEN <<aggregateShardedRuns(runList)>> ELSE <<>>
  /\ UNCHANGED <<rev, report, runList, input, keep, answer, compareFn,
                 objectPrototype, source, calls, issues>>

\* The outcome of aggregateShardedRuns([aggregateShardedRuns([a, b]), c]).
stagedOutcome(a, b, c) ==
  IF aggregateOutcome(<<a, b>>) # "ok" THEN aggregateOutcome(<<a, b>>)
  ELSE aggregateOutcome(<<aggregateShardedRuns(<<a, b>>), c>>)

\* aggregateShardedRuns([aggregateShardedRuns([a, b]), c]) for runList [a, b, c]
AggregateStaged ==
  /\ op = "init" /\ report = <<>> /\ Len(runList) = 3
  /\ op' = "aggregateStaged"
  /\ outcome' = stagedOutcome(runList[1], runList[2], runList[3])
  /\ run' = IF stagedOutcome(runList[1], runList[2], runList[3]) = "ok"
            THEN <<aggregateShardedRuns(
                     <<aggregateShardedRuns(<<runList[1], runList[2]>>),
                       runList[3]>>)>>
            ELSE <<>>
  /\ UNCHANGED <<rev, report, runList, input, keep, answer, compareFn,
                 objectPrototype, source, calls, issues>>

\* areRunsFromSameExecution(runList)
SameExecution ==
  /\ op = "init" /\ report = <<>>
  /\ op' = "sameExecution"
  /\ outcome' = "ok"
  /\ answer' = <<areRunsFromSameExecution(runList)>>
  /\ UNCHANGED <<rev, report, runList, run, input, keep, compareFn,
                 objectPrototype, source, calls, issues>>

\* sortTests(run, compareFn) on a given run
Sort ==
  /\ op = "init" /\ run # <<>>
  /\ Len(run[1].tests) <= MaxTests
  /\ \E comparators \in Comparators :
       /\ ComparatorDefined(run[1].tests, comparators)
       /\ compareFn' = comparators
       /\ run' = <<sortTests(run[1], comparators)>>
  /\ input' = run
  /\ op' = "sort"
  /\ outcome' = "ok"
  /\ answer' = <<>>
  /\ keep' = {}
  /\ UNCHANGED <<rev, report, runList, objectPrototype, source, calls,
                 issues>>

\* calculateStatistics(run) on a given run
Statistics ==
  /\ op = "init" /\ run # <<>>
  /\ op' = "statistics"
  /\ outcome' = "ok"
  /\ answer' = <<calculateStatistics(run[1]).stats>>
  /\ objectPrototype' = calculateStatistics(run[1]).written
  /\ UNCHANGED <<rev, report, runList, run, input, keep, compareFn, source,
                 calls, issues>>

\* run.totals.failed === 0 && run.totals.total > 0
allTestsPassed(r) == r.totals.failed = 0 /\ r.totals.total > 0

\* allTestsPassed(run) on a given run
AllPassed ==
  /\ op = "init" /\ run # <<>>
  /\ op' = "allTestsPassed"
  /\ outcome' = "ok"
  /\ answer' = <<allTestsPassed(run[1])>>
  /\ UNCHANGED <<rev, report, runList, run, input, keep, compareFn,
                 objectPrototype, source, calls, issues>>

\* parsePlaywrightJson(input): of an argument that holds one of the parsed
\* reports, or of an argument that holds no report
Parse ==
  /\ op = "init" /\ run = <<>> /\ runList = <<>>
  /\ \/ rev = "B" /\ report # <<>> /\ report[1] \in ParsedReports
     \/ rev = "" /\ report = <<>>
  /\ \E src \in IF report = <<>> THEN FaultySources ELSE ReportSources,
        runId \in RunIds, now \in Clock :
       LET result == parsePlaywrightJson(src, report, runId, now)
       IN /\ source' = <<src>>
          /\ calls' = result.calls
          /\ issues' = IF result.thrown = <<>> THEN <<>>
                       ELSE IssuesOf(result.thrown[1])
          /\ run' = result.run
          /\ outcome' = IF result.thrown = <<>> THEN "ok"
                        ELSE ErrorText(result.thrown[1])
  /\ op' = "parse"
  /\ UNCHANGED <<rev, report, runList, input, keep, answer, compareFn,
                 objectPrototype>>

Next ==
  \/ Normalize \/ NormalizeA \/ Filter \/ Aggregate \/ AggregateStaged
  \/ SameExecution
  \/ Sort \/ Statistics \/ AllPassed \/ Parse

Spec == Init /\ [][Next]_vars

----------------------------------------------------------------------------
(* The vocabulary of the claims: the attempt-holders of a report            *)

LocOf(x) == MkLoc(x.file, x.line, x.column)

\* The attempt-holders of the specs of a suite, in document order, each with
\* the retries field reported for it and the locations declared above it
\* (nearest first). In revision A an entry of spec.tests is the
\* attempt-holder itself.
SpecHolders(specs, r, above) ==
  Concat([s \in 1..Len(specs) |->
    Concat([t \in 1..Len(specs[s].tests) |->
      LET e == specs[s].tests[t]
      IN IF r = "B"
         THEN [h \in 1..Len(e.tests) |->
                 [conv |-> "spec", holder |-> e.tests[h],
                  retries |-> e.retries, title |-> e.title,
                  locs |-> <<IF e.location = <<>> THEN NoLoc
                             ELSE e.location[1], LocOf(specs[s])>> \o above]]
         ELSE <<[conv |-> "spec", holder |-> e, retries |-> NoNum,
                 title |-> specs[s].title,
                 locs |-> <<NoLoc, LocOf(specs[s])>> \o above]>>])])

CaseHolders(cases, above) ==
  Concat([t \in 1..Len(cases) |->
    [h \in 1..Len(cases[t].tests) |->
       [conv |-> "case", holder |-> cases[t].tests[h],
        retries |-> cases[t].retries, title |-> cases[t].title,
        locs |-> <<IF cases[t].location = <<>> THEN NoLoc
                   ELSE cases[t].location[1]>> \o above]]])

RECURSIVE AttemptHolders(_, _, _)
AttemptHolders(suites, r, above) ==
  Concat([i \in 1..Len(suites) |->
    LET locs == <<LocOf(suites[i])>> \o above
    IN AttemptHolders(suites[i].suites, r, locs)
         \o SpecHolders(suites[i].specs, r, locs)
         \o CaseHolders(suites[i].tests, locs)])

\* The attempt-holders of the report in hand.
Holders == AttemptHolders(report[1].suites, rev, <<>>)

\* A run was produced by normalizeTestRun from the report in hand.
Normalized == op = "normalize" /\ run # <<>>

\* The run in hand descends from normalizeTestRun by filterTests calls.
FromNormalizer == report # <<>> /\ run # <<>>

Tests == run[1].tests

Totals == run[1].totals

----------------------------------------------------------------------------
(* C1: every run produced by normalizeTestRun, and every run obtained from  *)
(* it by any sequence of filterTests calls, has totals.total = tests.length *)
(* = passed + failed + skipped + flaky.                                     *)

Inv_C1_TotalsConsistent ==
  FromNormalizer =>
    /\ Totals.total = Len(Tests)
    /\ Totals.total =
         Totals.passed + Totals.failed + Totals.skipped + Totals.flaky

\* a normalized run of two tests of different status, filtered twice
Wit_C1_FilteredTwice ==
  /\ FromNormalizer /\ op = "filter"
  /\ Len(input[1].tests) = 1 /\ Len(Tests) = 1
  /\ input[1].totals.total = 1
  /\ Tests[1].status = "failed"
  /\ Len(Holders) = 2

----------------------------------------------------------------------------
(* C2: in the retry-aware normalizer (revision B), an attempt-holder with   *)
(* reported retries > 0, coarse status "expected" or "passed" and an        *)
(* attempt that failed or timed out is "flaky"; with the same status and    *)
(* retries and no such attempt it is "passed"; coarse status "skipped" is   *)
(* "skipped"; every other non-passing coarse status is "failed".            *)

HasFailedAttempt(h) ==
  \E i \in 1..Len(h.results) : h.results[i].status \in {"failed", "timedOut"}

Passing(status) == status \in {"expected", "passed"}

Inv_C2_RetryAwareStatus ==
  (Normalized /\ rev = "B") =>
    /\ Len(Tests) = Len(Holders)
    /\ \A i \in 1..Len(Holders) :
         LET x == Holders[i]
             status == Tests[i].status
         IN /\ (x.retries > 0 /\ Passing(x.holder.status)
                  /\ HasFailedAttempt(x.holder)) => status = "flaky"
            /\ (x.retries > 0 /\ Passing(x.holder.status)
                  /\ ~HasFailedAttempt(x.holder)) => status = "passed"
            /\ x.holder.status = "skipped" => status = "skipped"
            /\ (~Passing(x.holder.status) /\ x.holder.status # "skipped")
                 => status = "failed"

\* attempts [failed, failed, passed], retries = 2, status "expected": flaky
Wit_C2_FailFailPass ==
  /\ Normalized /\ rev = "B" /\ Len(Holders) = 1
  /\ Holders[1].retries = 2
  /\ Holders[1].holder.status = "expected"
  /\ [i \in 1..Len(Holders[1].holder.results) |->
        Holders[1].holder.results[i].status] = <<"failed", "failed", "passed">>
  /\ Tests[1].status = "flaky"
  /\ Totals.flaky = 1

----------------------------------------------------------------------------
(* C3: an attempt-holder that failed on an early attempt and passed on its  *)
(* final attempt, with coarse status "expected" and no reported retries     *)
(* field, is emitted as "flaky" and counted in totals.flaky.                *)

FailedThenPassed(h) ==
  /\ Len(h.results) >= 2
  /\ h.results[Len(h.results)].status = "passed"
  /\ \E i \in 1..(Len(h.results) - 1) : h.results[i].status = "failed"

CE_C3_FailedThenPassedIsFlaky ==
  (Normalized /\ Len(Tests) = Len(Holders)) =>
    \A i \in 1..Len(Holders) :
      (/\ Holders[i].retries = NoNum
       /\ Holders[i].holder.status = "expected"
       /\ FailedThenPassed(Holders[i].holder))
        => (Tests[i].status = "flaky" /\ Totals.flaky >= 1)

----------------------------------------------------------------------------
(* C4: normalizeTestRun emits exactly one test per attempt-holder of the    *)
(* suite tree, under either convention, at any depth, also for an           *)
(* attempt-holder that has no attempt.                                      *)

CE_C4_OneTestPerHolder ==
  Normalized => Len(Tests) = Len(Holders)

----------------------------------------------------------------------------
(* C5: the ids of the tests of a normalized run are pairwise distinct.      *)

CE_C5_DistinctIds ==
  Normalized =>
    \A i, j \in 1..Len(Tests) : i # j => Tests[i].id # Tests[j].id

----------------------------------------------------------------------------
(* C6: file, line and column of a test are those of the first location      *)
(* declared among: the test, its spec or test case, the nearest ancestor    *)
(* suite that declares one; ("unknown", 0, 0) when none does.               *)

DeclaredLoc(locs) ==
  IF \E k \in 1..Len(locs) : locs[k].file # <<>>
  THEN locs[CHOOSE k \in 1..Len(locs) :
              /\ locs[k].file # <<>>
              /\ \A m \in 1..(k - 1) : locs[m].file = <<>>]
  ELSE MkLoc(Str_unknown, 0, 0)

CE_C6_LocationFallback ==
  (Normalized /\ Len(Tests) = Len(Holders)) =>
    \A i \in 1..Len(Holders) :
      LET loc == DeclaredLoc(Holders[i].locs)
      IN /\ Tests[i].file = loc.file
         /\ Tests[i].line = loc.line
         /\ Tests[i].column = loc.column

----------------------------------------------------------------------------
(* C7: duration, error and attachments of a test are those of the last      *)
(* attempt of its attempt-holder: the duration is the last attempt's (0     *)
(* without an attempt), the attachments are the last attempt's, and there   *)
(* is no error when the last attempt carries none, whatever the earlier     *)
(* attempts carried.                                                        *)

CarriesError(a) == a.error # <<>> \/ a.errors # <<>>

Inv_C7_LastAttempt ==
  (Normalized /\ Len(Tests) = Len(Holders)) =>
    \A i \in 1..Len(Holders) :
      LET rs == Holders[i].holder.results
          t == Tests[i]
      IN IF rs = <<>>
         THEN t.duration = 0 /\ t.error = <<>> /\ t.attachments = <<>>
         ELSE LET last == rs[Len(rs)]
              IN /\ last.duration # NoNum => t.duration = last.duration
                 /\ last.duration = NoNum => t.duration = 0
                 /\ Len(t.attachments) = Len(last.attachments)
                 /\ \A k \in 1..Len(last.attachments) :
                      t.attachments[k].name = last.attachments[k].name
                 /\ (t.error # <<>>) <=> CarriesError(last)
                 /\ last.error # <<>> =>
                      t.error[1].message = last.error[1].message

\* the first attempt failed with an error and an attachment, the last did not
Wit_C7_EarlierAttemptFailed ==
  /\ Normalized /\ Len(Holders) = 1 /\ Len(Tests) = 1
  /\ Len(Holders[1].holder.results) = 2
  /\ CarriesError(Holders[1].holder.results[1])
  /\ Holders[1].holder.results[1].duration = 0
  /\ Holders[1].holder.results[1].attachments # <<>>
  /\ ~CarriesError(Holders[1].holder.results[2])
  /\ Holders[1].holder.results[2].duration = 1
  /\ Holders[1].holder.results[2].attachments = <<>>
  /\ Tests[1].duration = 1
  /\ Tests[1].error = <<>>
  /\ Tests[1].attachments = <<>>

----------------------------------------------------------------------------
(* C8: the retries of a test are the reported retries field when there is   *)
(* one, and otherwise max(0, number of attempts - 1).                       *)

CE_C8_RetriesFromAttempts ==
  (Normalized /\ Len(Tests) = Len(Holders)) =>
    \A i \in 1..Len(Holders) :
      LET n == Len(Holders[i].holder.results)
      IN Tests[i].retries =
           IF Holders[i].retries # NoNum THEN Holders[i].retries
           ELSE IF n >= 1 THEN n - 1 ELSE 0

----------------------------------------------------------------------------
(* C9: for two or more runs, aggregateShardedRuns returns the inputs' tests *)
(* concatenated in input order, and totals counted from that merged list,   *)
(* so totals.total = tests.length = the sum of the inputs' tests lengths.   *)

Aggregated == op = "aggregate" /\ run # <<>> /\ Len(runList) >= 2

RECURSIVE TestsBefore(_)
\* the number of tests of the first i runs of the list
TestsBefore(i) ==
  IF i = 0 THEN 0 ELSE TestsBefore(i - 1) + Len(runList[i].tests)

RECURSIVE InputTotal(_)
\* the sum of the totals.total fields of the first i runs of the list
InputTotal(i) ==
  IF i = 0 THEN 0 ELSE InputTotal(i - 1) + runList[i].totals.total

Inv_C9_TestsConcatenated ==
  Aggregated =>
    /\ Len(Tests) = TestsBefore(Len(runList))
    /\ \A i \in 1..Len(runList) :
         \A k \in 1..Len(runList[i].tests) :
           Tests[TestsBefore(i - 1) + k] = runList[i].tests[k]
    /\ Totals.total = Len(Tests)
    /\ \A st \in {"passed", "failed", "skipped", "flaky"} :
         Totals[st] = Cardinality({k \in 1..Len(Tests) : Tests[k].status = st})

\* three tests of two runs whose own totals fields add up to something else
Wit_C9_MergedTotals ==
  /\ Aggregated
  /\ Len(runList[1].tests) = 2 /\ Len(runList[2].tests) = 1
  /\ runList[1].tests[1] # runList[2].tests[1]
  /\ Len(Tests) = 3 /\ Totals.total = 3
  /\ InputTotal(Len(runList)) # 3

----------------------------------------------------------------------------
(* C10: for two or more runs, the merged run starts at the earliest input   *)
(* start and ends at the latest input end, its duration is that span, and   *)
(* its runId is the first input's.                                          *)

RECURSIVE InputDuration(_)
\* the sum of the durations of the first i runs of the list
InputDuration(i) ==
  IF i = 0 THEN 0 ELSE InputDuration(i - 1) + runList[i].duration

Inv_C10_WallClockSpan ==
  Aggregated =>
    LET started == DateGetTime(run[1].startedAt)
        ended == DateGetTime(run[1].endedAt)
        starts == {DateGetTime(runList[i].startedAt) : i \in 1..Len(runList)}
        ends == {DateGetTime(runList[i].endedAt) : i \in 1..Len(runList)}
    IN /\ started \in starts /\ \A t \in starts : started <= t
       /\ ended \in ends /\ \A t \in ends : ended >= t
       /\ run[1].startedAt.fmt = "iso" /\ run[1].endedAt.fmt = "iso"
       /\ run[1].duration = ended - started
       /\ run[1].runId = runList[1].runId

\* the first run starts after another one, the runs overlap, the ids differ
Wit_C10_OverlappingRuns ==
  /\ Aggregated
  /\ DateGetTime(runList[1].startedAt) > DateGetTime(run[1].startedAt)
  /\ \E i \in 1..Len(runList) :
       DateGetTime(runList[i].endedAt) < DateGetTime(run[1].endedAt)
  /\ run[1].duration # InputDuration(Len(runList))
  /\ \E i \in 1..Len(runList) : runList[i].runId # run[1].runId
  /\ \E i \in 1..Len(runList) : runList[i].startedAt.fmt = "alt"

----------------------------------------------------------------------------
(* C11: areRunsFromSameExecution returns false whenever two ShardInfo       *)
(* entries of the runs declare different totals, also when the entries are  *)
(* several entries of one run.                                              *)

SameExecutionAsked == op = "sameExecution" /\ Len(runList) >= 2

ShardTotals == {allShardInfos(runList)[k].total :
                  k \in 1..Len(allShardInfos(runList))}

ShardCurrents == {allShardInfos(runList)[k].current :
                    k \in 1..Len(allShardInfos(runList))}

CE_C11_TotalsDiffer ==
  (SameExecutionAsked /\ Cardinality(ShardTotals) > 1) => answer[1] = FALSE

----------------------------------------------------------------------------
(* C12: areRunsFromSameExecution is true for an empty or one-element list;  *)
(* for two or more runs it is false when a run has no shards or an empty    *)
(* shards list, false when a shard index occurs twice among all entries,    *)
(* and true when every run has shards, the totals agree and no index        *)
(* repeats, whether or not every index 1..total is present.                 *)

----------------------------------------------------------------------------
(* C13: aggregateShardedRuns of a one-element list returns that run, every  *)
(* field as it was given, none recomputed.                                  *)

Inv_C13_SingleRunReturned ==
  (op = "aggregate" /\ Len(runList) = 1) =>
    outcome = "ok" /\ run = <<runList[1]>>

\* the one run has totals that its tests do not give, or a date that Date
\* cannot parse
Wit_C13_StaleSingleRun ==
  /\ op = "aggregate" /\ Len(runList) = 1
  /\ runList[1].totals.total # Len(runList[1].tests)
  /\ run = <<runList[1]>>

----------------------------------------------------------------------------
(* C14: aggregateShardedRuns of the empty list throws the error "No test    *)
(* runs provided for aggregation" and returns no run.                       *)

Inv_C14_EmptyListThrows ==
  (op = "aggregate" /\ runList = <<>>) =>
    outcome = "Error: No test runs provided for aggregation" /\ run = <<>>

Wit_C14_EmptyList ==
  /\ op = "aggregate" /\ runList = <<>>
  /\ outcome = "Error: No test runs provided for aggregation"

----------------------------------------------------------------------------
(* C15: in the run aggregateShardedRuns returns, projects is the sorted,    *)
(* duplicate-free union of the inputs' projects; shards is the inputs'      *)
(* shards lists concatenated in input order, duplicates kept; metadata has  *)
(* the keys of all inputs, each with the value of the last input that has   *)
(* it; shards and metadata are absent, not empty, when no input             *)
(* contributed an entry or a key.                                           *)

RECURSIVE ShardsBefore(_)
\* the number of ShardInfo entries of the first i runs of the list
ShardsBefore(i) ==
  IF i = 0 THEN 0
  ELSE ShardsBefore(i - 1)
         + (IF runList[i].shards = <<>> THEN 0 ELSE Len(runList[i].shards[1]))

\* the keys of the metadata of the i-th run of the list
MetadataKeys(i) ==
  IF runList[i].metadata = <<>> THEN {} ELSE DOMAIN runList[i].metadata[1]

MergedFields ==
  LET r == run[1]
      n == Len(runList)
      keys == UNION {MetadataKeys(i) : i \in 1..n}
  IN /\ Range(r.projects) = UNION {Range(runList[i].projects) : i \in 1..n}
     /\ \A j \in 1..(Len(r.projects) - 1) :
          StrLess(r.projects[j], r.projects[j + 1])
     /\ IF ShardsBefore(n) = 0 THEN r.shards = <<>>
        ELSE /\ r.shards # <<>>
             /\ Len(r.shards[1]) = ShardsBefore(n)
             /\ \A i \in 1..n :
                  runList[i].shards # <<>> =>
                    \A k \in 1..Len(runList[i].shards[1]) :
                      r.shards[1][ShardsBefore(i - 1) + k]
                        = runList[i].shards[1][k]
     /\ IF keys = {} THEN r.metadata = <<>>
        ELSE /\ r.metadata # <<>>
             /\ DOMAIN r.metadata[1] = keys
             /\ \A k \in keys :
                  LET last == CHOOSE i \in 1..n :
                                /\ k \in MetadataKeys(i)
                                /\ \A j \in (i + 1)..n : k \notin MetadataKeys(j)
                  IN r.metadata[1][k] = runList[last].metadata[1][k]

\* the statement for every list that aggregateShardedRuns accepts
CE_C15_MergedFieldsAnyList ==
  (op = "aggregate" /\ run # <<>>) => MergedFields

\* the statement for lists of two or more runs
Inv_C15_MergedFields ==
  Aggregated => MergedFields

\* two runs give the same key different values; the later value is kept
Wit_C15_KeyOverwritten ==
  /\ Aggregated
  /\ Len(runList) = 2
  /\ "ci" \in MetadataKeys(1) /\ "ci" \in MetadataKeys(2)
  /\ runList[1].metadata[1].ci = "b" /\ runList[2].metadata[1].ci = "a"
  /\ run[1].metadata[1].ci = "a"
  /\ run[1].metadata[1].os = "x"
  /\ run[1].shards = <<>>

----------------------------------------------------------------------------
(* C16: filterTests(run, p) returns a run whose tests are the input's tests *)
(* that satisfy p, in their order, whose totals are counted from those      *)
(* tests, and whose other fields are the input's; the input run is as it    *)
(* was before the call.                                                     *)

RECURSIVE DurationFrom(_, _)
\* the durations of tests[i..], an absent duration counting as 0
DurationFrom(tests, i) ==
  IF i > Len(tests) THEN 0
  ELSE (IF tests[i].duration \in {NoNum, NaN} THEN 0 ELSE tests[i].duration)
         + DurationFrom(tests, i + 1)

\* totals are the counts and the duration sum of tests
TotalsOf(totals, tests) ==
  /\ totals.total = Len(tests)
  /\ \A st \in {"passed", "failed", "skipped", "flaky"} :
       totals[st] = Cardinality({k \in 1..Len(tests) : tests[k].status = st})
  /\ totals.duration = DurationFrom(tests, 1)

\* runs a and b agree on every field but tests and totals
SameFrame(a, b) ==
  /\ a.runId = b.runId /\ a.startedAt = b.startedAt /\ a.endedAt = b.endedAt
  /\ a.duration = b.duration /\ a.projects = b.projects
  /\ a.shards = b.shards /\ a.metadata = b.metadata

Inv_C16_FilterFrame ==
  [][op' = "filter" =>
       /\ input' = run
       /\ run'[1].tests = SelectSeq(run[1].tests, LAMBDA t : t \in keep')
       /\ TotalsOf(run'[1].totals, run'[1].tests)
       /\ SameFrame(run'[1], run[1])]_vars

\* the second of two tests is kept; the run has shards and metadata
Wit_C16_SecondKept ==
  /\ op = "filter"
  /\ Len(input[1].tests) = 2 /\ Len(run[1].tests) = 1
  /\ run[1].tests[1] = input[1].tests[2]
  /\ input[1].totals.total = 2 /\ run[1].totals.total = 1
  /\ run[1].projects # <<>>

----------------------------------------------------------------------------
(* C17: sortTests(run, cmp) returns a run whose tests are the input's tests *)
(* ordered by cmp, each as often as in the input, tests that compare equal  *)
(* in their input order, and whose other fields, totals included, are the   *)
(* input's; the input run is as it was before the call.                     *)

\* out is ordered by the comparator
Ordered(out, comparators) ==
  \A i, j \in 1..Len(out) :
    i < j => compoundSort(comparators, out[i], out[j]) <= 0

\* the tests that compare equal to x are the same in out as in inp, in the
\* same order
TiesKept(inp, out, comparators) ==
  \A k \in 1..Len(inp) :
    SelectSeq(out, LAMBDA t : compoundSort(comparators, t, inp[k]) = 0)
      = SelectSeq(inp, LAMBDA t : compoundSort(comparators, t, inp[k]) = 0)

Inv_C17_StableSort ==
  [][op' = "sort" =>
       /\ input' = run
       /\ Len(run'[1].tests) = Len(run[1].tests)
       /\ Ordered(run'[1].tests, compareFn')
       /\ TiesKept(run[1].tests, run'[1].tests, compareFn')
       /\ run'[1].totals = run[1].totals
       /\ SameFrame(run'[1], run[1])]_vars

\* three tests by status: the failed one moves to the front, the two passed
\* ones keep their order
Wit_C17_TieAndMove ==
  /\ op = "sort" /\ compareFn = Plain("byStatus")
  /\ input[1].tests = <<Test_1, Test_7, Test_2>>
  /\ run[1].tests = <<Test_2, Test_1, Test_7>>

----------------------------------------------------------------------------
(* C18: in the statistics of a run with n tests, a test without duration    *)
(* counting as 0: the total is the sum of the durations and the average     *)
(* total / n; median and p95 are the elements of the ascending durations at *)
(* index ceil(p/100 * n) - 1, kept within 0..n-1, for p = 50 and 95; min    *)
(* and max are the least and the greatest duration. With one test min, max, *)
(* median and p95 are its duration, with no test all six are 0, and the 100 *)
(* durations 10, 20, ..., 1000 have median 500 and p95 950.                 *)

StatisticsAsked == op = "statistics"

DurationOf(i) == IF run[1].tests[i].duration = NoNum THEN 0
                 ELSE run[1].tests[i].duration

TestCount == Len(run[1].tests)

\* the sum of the durations of the tests lo..hi
RECURSIVE DurationSum(_, _)
DurationSum(lo, hi) ==
  IF lo > hi THEN 0
  ELSE IF lo = hi THEN DurationOf(lo)
  ELSE DurationSum(lo, (lo + hi) \div 2)
         + DurationSum((lo + hi) \div 2 + 1, hi)

\* v is at index k (from 0) of the durations in ascending order
AtRank(v, k) ==
  /\ \E i \in 1..TestCount : DurationOf(i) = v
  /\ Cardinality({i \in 1..TestCount : DurationOf(i) < v}) <= k
  /\ k < Cardinality({i \in 1..TestCount : DurationOf(i) <= v})

\* ceil(p/100 * n) - 1 within 0..n-1, n > 0
PercentileIndex(p) ==
  LET c == CHOOSE m \in 0..TestCount :
             m * 100 >= p * TestCount /\ (m - 1) * 100 < p * TestCount
  IN IF c - 1 < 0 THEN 0 ELSE IF c - 1 > TestCount - 1 THEN TestCount - 1
     ELSE c - 1

Inv_C18_DurationStatistics ==
  StatisticsAsked =>
    LET d == answer[1].duration
    IN /\ TestCount = 0 =>
            /\ d.total = 0 /\ d.average.num = 0 /\ d.median = 0
            /\ d.p95 = 0 /\ d.min = 0 /\ d.max = 0
       /\ TestCount > 0 =>
            /\ AtRank(d.median, PercentileIndex(50))
            /\ AtRank(d.p95, PercentileIndex(95))
            /\ AtRank(d.min, 0)
            /\ AtRank(d.max, TestCount - 1)
            /\ d.average = [num |-> d.total, den |-> TestCount]
            /\ d.total = DurationSum(1, TestCount)
       /\ TestCount = 1 =>
            /\ d.min = DurationOf(1) /\ d.max = DurationOf(1)
            /\ d.median = DurationOf(1) /\ d.p95 = DurationOf(1)
       /\ run[1] = HundredRun => d.median = 500 /\ d.p95 = 950

\* the 100 durations 10..1000
Wit_C18_HundredTests ==
  /\ StatisticsAsked /\ run[1] = HundredRun
  /\ answer[1].duration.median = 500 /\ answer[1].duration.p95 = 950
  /\ answer[1].duration.total = 50500

----------------------------------------------------------------------------
(* C19: in the statistics of a run, byProject has a group exactly for the   *)
(* projects of the run's tests ("default" for a test without project) and   *)
(* byFile exactly for their files ("unknown" without file); a group holds   *)
(* the number, the per-status counts and the duration sum of its tests; the *)
(* totals of the groups add up to stats.total and their durations to        *)
(* stats.duration.total, for byProject and for byFile.                      *)

ProjectOf(i) == StrOr(run[1].tests[i].project, Str_default)
FileOf(i) == StrOr(run[1].tests[i].file, Str_unknown)

\* the sum of the durations of the tests of S among lo..hi
RECURSIVE DurationSumOf(_, _, _)
DurationSumOf(S, lo, hi) ==
  IF lo > hi THEN 0
  ELSE IF lo = hi THEN (IF lo \in S THEN DurationOf(lo) ELSE 0)
  ELSE DurationSumOf(S, lo, (lo + hi) \div 2)
         + DurationSumOf(S, (lo + hi) \div 2 + 1, hi)

StatusCount(S, status) ==
  Cardinality({i \in S : run[1].tests[i].status = status})

\* the group of the tests with the indices S
GroupOf(S) ==
  [total |-> Cardinality(S), passed |-> StatusCount(S, "passed"),
   failed |-> StatusCount(S, "failed"), skipped |-> StatusCount(S, "skipped"),
   flaky |-> StatusCount(S, "flaky"),
   duration |-> DurationSumOf(S, 1, TestCount)]

\* the sum of a field over the groups with the given keys
RECURSIVE GroupSum(_, _, _)
GroupSum(groups, keys, field) ==
  IF keys = {} THEN 0
  ELSE LET k == CHOOSE x \in keys : TRUE
       IN groups[k][field] + GroupSum(groups, keys \ {k}, field)

CE_C19_GroupsPerKey ==
  StatisticsAsked =>
    LET stats == answer[1]
        projects == {ProjectOf(i) : i \in 1..TestCount}
        files == {FileOf(i) : i \in 1..TestCount}
    IN /\ DOMAIN stats.byProject = projects
       /\ \A k \in projects :
            stats.byProject[k] = GroupOf({i \in 1..TestCount : ProjectOf(i) = k})
       /\ DOMAIN stats.byFile = files
       /\ \A k \in files :
            stats.byFile[k] = GroupOf({i \in 1..TestCount : FileOf(i) = k})
       /\ GroupSum(stats.byProject, projects, "total") = stats.total
       /\ GroupSum(stats.byFile, files, "total") = stats.total
       /\ GroupSum(stats.byProject, projects, "duration")
            = stats.duration.total
       /\ GroupSum(stats.byFile, files, "duration") = stats.duration.total

----------------------------------------------------------------------------
(* C20: parsePlaywrightJson fails by the shape of its argument. A number,   *)
(* null or a boolean fails with "Input must be a file path string, JSON     *)
(* object, or Buffer" and nothing is read or decoded. For a path, a file    *)
(* that is not found fails with "File not found: <path>", text that is no   *)
(* JSON with a ValidationError naming the file, and any other read failure  *)
(* with the error of the read itself. For a Buffer, text that is no JSON    *)
(* fails with a ValidationError naming the buffer and any other decode      *)
(* failure with the error of the decode itself.                             *)

ParseAsked == op = "parse"

Inv_C20_FailureByShape ==
  ParseAsked =>
    LET src == source[1]
    IN /\ src.kind \notin {"path", "Buffer", "object"} =>
            /\ outcome
                 = "Error: Input must be a file path string, JSON object, or Buffer"
            /\ calls = <<>>
            /\ run = <<>>
       /\ src.kind = "path" /\ src.fault = "ENOENT" =>
            outcome = "Error: File not found: " \o src.path /\ run = <<>>
       /\ src.kind = "path" /\ src.fault = "syntax" =>
            /\ outcome = "ValidationError: Invalid JSON in file " \o src.path
                           \o ": " \o JsonSyntaxError.message
            /\ run = <<>>
       /\ src.kind = "path" /\ src.fault \in {"EACCES", "EISDIR"} =>
            /\ outcome = ErrorText(SystemError(src.fault, src.path))
            /\ run = <<>>
       /\ src.kind = "Buffer" /\ src.fault = "syntax" =>
            /\ outcome = "ValidationError: Invalid JSON in buffer: "
                           \o JsonSyntaxError.message
            /\ run = <<>>
       /\ src.kind = "Buffer" /\ src.fault = "tooLong" =>
            outcome = ErrorText(StringTooLong) /\ run = <<>>

\* a path that may not be read: the error of the read comes out as it is
Wit_C20_PermissionDenied ==
  /\ ParseAsked
  /\ source = <<MkSource("path", "/a.json", "EACCES")>>
  /\ outcome = "Error: EACCES: permission denied, open '/a.json'"
  /\ calls = <<"readFile">>

----------------------------------------------------------------------------
(* C21: a call of parsePlaywrightJson reads or decodes first, validates     *)
(* next and normalizes last. The source is read at most once; the           *)
(* normalizer is called only after the validator, and only for a value the  *)
(* schema accepts; when the schema rejects the decoded value the call       *)
(* throws a ValidationError with at least one issue, the normalizer is not  *)
(* called and no run is returned.                                           *)

\* the number of calls of the collaborator c
CallCount(c) == Cardinality({i \in 1..Len(calls) : calls[i] = c})

\* the position of the only call of c, 0 when it is not called
CallAt(c) ==
  IF CallCount(c) = 0 THEN 0 ELSE CHOOSE i \in 1..Len(calls) : calls[i] = c

\* the decoded value is no report the schema accepts
Rejected ==
  /\ source[1].fault \in {"none", "noReport"}
  /\ source[1].kind \in {"path", "Buffer", "object"}
  /\ source[1].fault = "none" => ~SchemaAccepts(report[1])

Inv_C21_ReadValidateNormalize ==
  ParseAsked =>
    /\ \A c \in {"readFile", "toString", "JSON.parse",
                 "validatePlaywrightJson", "normalizeTestRun"} :
         CallCount(c) <= 1
    /\ CallCount("normalizeTestRun") = 1 =>
         /\ CallAt("validatePlaywrightJson") > 0
         /\ CallAt("validatePlaywrightJson") < CallAt("normalizeTestRun")
         /\ source[1].fault = "none" /\ SchemaAccepts(report[1])
    /\ CallCount("validatePlaywrightJson") = 1 =>
         /\ \A c \in {"readFile", "toString", "JSON.parse"} :
              CallAt(c) < CallAt("validatePlaywrightJson")
         /\ source[1].kind = "path" =>
              CallAt("readFile") = 1 /\ CallAt("JSON.parse") = 2
         /\ source[1].kind = "Buffer" =>
              CallAt("toString") = 1 /\ CallAt("JSON.parse") = 2
    /\ Rejected =>
         /\ outcome = "ValidationError: Invalid Playwright JSON report"
         /\ issues # <<>> /\ issues[1] # {}
         /\ CallCount("validatePlaywrightJson") = 1
         /\ CallCount("normalizeTestRun") = 0
         /\ run = <<>>
    /\ run # <<>> => outcome = "ok" /\ CallCount("normalizeTestRun") = 1

\* a file holding a report whose test case lacks retries
Wit_C21_RejectedReport ==
  /\ ParseAsked /\ source[1].kind = "path" /\ source[1].fault = "none"
  /\ "retries" \in SchemaIssues(report[1])
  /\ calls = <<"readFile", "JSON.parse", "validatePlaywrightJson">>
  /\ issues # <<>> /\ "retries" \in issues[1]
  /\ run = <<>>

----------------------------------------------------------------------------
(* C22: the projects of a run produced by normalizeTestRun are the project  *)
(* names of the report configuration together with the project names of all *)
(* attempt-holders of the tree, each once, in lexicographic order.          *)

\* the project names the attempt-holders of the report carry
HolderProjects ==
  {Holders[k].holder.projectName : k \in 1..Len(Holders)} \ {<<>>}

CE_C22_ProjectsUnion ==
  Normalized =>
    LET names == Range(report[1].config.projects) \cup HolderProjects
        projects == run[1].projects
    IN /\ Range(projects) = names
       /\ Len(projects) = Cardinality(names)
       /\ \A j \in 1..(Len(projects) - 1) :
            StrLess(projects[j], projects[j + 1])

----------------------------------------------------------------------------
(* C23: the tests of a run produced by normalizeTestRun are in depth-first  *)
(* document order: the suites of a list one after the other, and for each   *)
(* suite the tests of its child suites, then those of its specs, then those *)
(* of its legacy test cases.                                                *)

\* The attempt-holders that give a test, in that order: revision A passes
\* over an attempt-holder of a spec that has no attempts.
EmittingHolders ==
  SelectSeq(Holders,
            LAMBDA x : rev = "B" \/ x.conv = "case"
                         \/ Len(x.holder.results) # 0)

Inv_C23_DocumentOrder ==
  Normalized =>
    /\ Len(Tests) = Len(EmittingHolders)
    /\ \A k \in 1..Len(Tests) : Tests[k].title = EmittingHolders[k].title

\* all seven tests: those of the child suite, the specs, the test cases,
\* the sibling suite
Wit_C23_AllParts ==
  /\ Normalized
  /\ [k \in 1..Len(Tests) |-> Tests[k].title]
       = << <<"a">>, <<"b">>, <<"c">>, <<"d">>, <<"e">>, <<"f">>, <<"g">> >>

----------------------------------------------------------------------------
(* C24: for every attempt-holder, when the status-string mapping of its     *)
(* coarse status gives "skipped", "failed" or "flaky", the retry-aware      *)
(* normalizer gives the test the same status; the two differ only where the *)
(* mapping gives "passed" and the retry-aware status is "flaky".            *)

\* what the status-string mapping makes of the coarse status of holder k
MappedStatus(k) == determineTestStatusA(Holders[k].holder.status)

CE_C24_RetryAwareRefinesMapping ==
  (Normalized /\ rev = "B") =>
    /\ Len(Tests) = Len(Holders)
    /\ \A k \in 1..Len(Tests) :
         /\ MappedStatus(k) \in {"skipped", "failed", "flaky"} =>
              Tests[k].status = MappedStatus(k)
         /\ Tests[k].status # MappedStatus(k) =>
              MappedStatus(k) = "passed" /\ Tests[k].status = "flaky"

----------------------------------------------------------------------------
(* C25: the totals filterTests gives the filtered list and the totals       *)
(* aggregateShardedRuns gives the merged list are the totals the            *)
(* normalizer's calculateTotals computes for that same list, tests without  *)
(* a duration included.                                                     *)

Filtered == op = "filter" /\ run # <<>>

Merged == op = "aggregate" /\ outcome = "ok" /\ Len(runList) >= 2

CE_C25_SameTotalsRoutine ==
  (Filtered \/ Merged) => Totals = calculateTotals(Tests)

----------------------------------------------------------------------------
(* C26: allTestsPassed(run) is true exactly when the run has at least one   *)
(* test and every test of the run has the status "passed".                  *)

AllPassedAsked == op = "allTestsPassed"

CE_C26_AllPassedExactly ==
  AllPassedAsked =>
    (answer[1] <=> /\ TestCount > 0
                   /\ \A i \in 1..TestCount : run[1].tests[i].status = "passed")

----------------------------------------------------------------------------
(* C27: the run aggregateShardedRuns returns for two or more runs has       *)
(* totals.total equal to the length of its tests list and each per-status   *)
(* total equal to the number of its tests of that status, whatever the      *)
(* totals of the inputs say.                                                *)

TestsOfStatus(s) == Cardinality({i \in 1..Len(Tests) : Tests[i].status = s})

TotalsRecounted ==
  /\ Totals.total = Len(Tests)
  /\ Totals.passed = TestsOfStatus("passed")
  /\ Totals.failed = TestsOfStatus("failed")
  /\ Totals.skipped = TestsOfStatus("skipped")
  /\ Totals.flaky = TestsOfStatus("flaky")

Inv_C27_MergedTotalsRecounted == Merged => TotalsRecounted

\* one of the merged runs came with totals that its tests do not give
Wit_C27_StaleInputMerged ==
  /\ Merged
  /\ \E i \in 1..Len(runList) :
       runList[i].totals.total # Len(runList[i].tests)
  /\ Len(Tests) > 0
  /\ TotalsRecounted

\* the statement for every non-empty list, a single run included
CE_C27_TotalsRecountedAnyList ==
  (op = "aggregate" /\ outcome = "ok") => TotalsRecounted

----------------------------------------------------------------------------
(* C28: in every run normalizeTestRun produces, the project of every test   *)
(* is in the run's projects list, the tests that got the fallback project   *)
(* "default" included.                                                      *)

CE_C28_TestProjectListed ==
  Normalized =>
    \A i \in 1..Len(Tests) : Tests[i].project \in Range(run[1].projects)

----------------------------------------------------------------------------
(* C29: for runs a, b, c with valid timestamps, aggregating the aggregate   *)
(* of a and b with c gives the run that aggregating a, b, c at once gives,  *)
(* equal in every field.                                                    *)

Staged == op = "aggregateStaged"

ValidTimestamps ==
  \A i \in 1..Len(runList) :
    DateGetTime(runList[i].startedAt) # NaN /\ DateGetTime(runList[i].endedAt) # NaN

Inv_C29_StagedAggregation ==
  (Staged /\ ValidTimestamps) =>
    /\ outcome = "ok"
    /\ aggregateOutcome(runList) = "ok"
    /\ run = <<aggregateShardedRuns(runList)>>

\* the first stage moved the start away from the base run's, and wrote it in
\* another format than the one an input came in
Wit_C29_StartFromSecondRun ==
  /\ Staged /\ ValidTimestamps /\ outcome = "ok"
  /\ DateGetTime(runList[2].startedAt) < DateGetTime(runList[1].startedAt)
  /\ DateGetTime(runList[3].endedAt) > DateGetTime(runList[2].endedAt)
  /\ run[1].startedAt = toISOString(DateGetTime(runList[2].startedAt))
  /\ run[1].endedAt = toISOString(DateGetTime(runList[3].endedAt))

----------------------------------------------------------------------------
(* C30: when areRunsFromSameExecution is true of two or more runs, every    *)
(* ShardInfo of the runs has 1 <= current <= total, and the runs have no    *)
(* more ShardInfo entries than the total they declare.                      *)

CE_C30_ShardsWithinTotal ==
  (SameExecutionAsked /\ answer[1] = TRUE) =>
    /\ \A k \in 1..Len(allShardInfos(runList)) :
         /\ 1 <= allShardInfos(runList)[k].current
         /\ allShardInfos(runList)[k].current <= allShardInfos(runList)[k].total
    /\ Len(allShardInfos(runList)) <= runList[1].shards[1][1].total

====
